---- MODULE Spec2Model ----
(***************************************************************************)
(* Session-scoped question answering of alleneee/langchain-best-prectice:  *)
(* the session store (app/services/session_service.py), the blocking and   *)
(* streaming orchestrators (app/services/document_qa_service.py,           *)
(* app/services/tour_guide_service.py) and the HTTP adapters in front of   *)
(* them (app/api.py, app/api/endpoints/*.py).                              *)
(*                                                                         *)
(* Strings are sequences of one-character strings, so that truthiness      *)
(* (len > 0), whitespace and concatenation are what they are in Python.    *)
(* Collaborators (completion, vector index, web search, the file system)   *)
(* are the environment: each handler draws their outcomes with \E.         *)
(* Names read from `settings` and the service attributes that no file      *)
(* under src/ assigns (vector_store_manager, search_service) are           *)
(* configuration supplied by the deployment and are drawn in Init.         *)
(***************************************************************************)
EXTENDS Integers, Sequences, FiniteSets, TLC

VARIABLES
    sessions,      \* SessionService.sessions: the dict id -> session record
    disk,          \* sessions_dir/<id>.json: the files present, id -> content
    tmp,           \* sessions_dir/<id>.tmp:  the files present, id -> content
    settings,      \* app.core.config.settings, the fields the orchestrator reads
    vector_store,  \* vector_store_manager.vector_store is set (truthy)
    last,          \* what the last completed handler was given and returned
    nproc,         \* per id: successful process() calls that supplied it
    byCreate,      \* ids made by an explicit create() and only processed since
    saving,        \* the _save_session in progress: position, id and old record
    stream,        \* the streaming call in progress: the generator's frame
    clock,         \* what time.time() and datetime.now() return, in half seconds
    tz,            \* the time zone of the process: local time as a function of time
    reqs,          \* the requests in progress at the same time, one frame each
    tools          \* the names of the tools the tour guide service was built with

vars == <<sessions, disk, tmp, settings, vector_store, last, nproc, byCreate,
          saving, stream, clock, tz, reqs, tools>>

----------------------------------------------------------------------------
(* Bounds of the model *)

\* longest stored history, in turns (one user and one assistant message)
MaxTurns == 3

\* most increments one completion stream delivers
MaxChunks == 2

\* longest sequence add_message builds, in messages
MaxMessages == 2

\* latest reading of the clock, in half seconds
MaxClock == 2

\* the zone "DST" sets its local time back by FoldBack at the instant FoldAt
\* (the end of daylight saving time), the zone "UTC" never does
TimeZones == {"UTC", "DST"}
FoldAt == 2
FoldBack == 2

Ids == {"s1", "s2", "s3"}

\* tool names, letter by letter: the time zone tool every tour guide service
\* defines, and a tool of the map service
ConvertTimezone == <<"t", "z">>
MapsWeather == <<"M", "a", "p", "s">>
AmapTools == {MapsWeather}

\* _init_tools: the tools the map service supplied, then convert_timezone
InitTools(mcp_tools) == mcp_tools \cup {ConvertTimezone}

None == "None"

\* request texts: empty, whitespace only, and a real question
Questions == {<<>>, <<" ">>, <<"q">>}
Models == {"gpt-4o", "gpt-3.5-turbo"}
Answer == <<"a">>
\* increments of a streamed completion; the empty one is what the API sends
\* with its first (role) and last (finish) deltas
Chunks == {<<>>, <<"x">>, <<"y">>}

----------------------------------------------------------------------------
(* Python dicts as functions on the set of their keys *)

Put(d, k, v) == [x \in (DOMAIN d) \cup {k} |-> IF x = k THEN v ELSE d[x]]
Del(d, k) == [x \in (DOMAIN d) \ {k} |-> d[x]]
Empty == [x \in {} |-> 0]

----------------------------------------------------------------------------
(* Messages and their serialised form *)

HumanMessage(c) == [cls |-> "HumanMessage", content |-> c]
AIMessage(c) == [cls |-> "AIMessage", content |-> c]
SystemMessage(c) == [cls |-> "SystemMessage", content |-> c]

\* _save_session, the isinstance chain that tags each message
TypeStr(msg) ==
    IF msg.cls = "HumanMessage" THEN "human"
    ELSE IF msg.cls = "AIMessage" THEN "ai"
    ELSE IF msg.cls = "SystemMessage" THEN "system"
    ELSE "unknown"

\* _save_session, save_data: the JSON document written for a session;
\* complete is whether the whole document reached the file
SaveData(session_data) ==
    [complete |-> TRUE,
     created_at |-> session_data.created_at,
     langchain_messages |->
        [i \in 1..Len(session_data.langchain_history) |->
            [type |-> TypeStr(session_data.langchain_history[i]),
             content |-> session_data.langchain_history[i].content]]]

\* a file opened for writing whose document has not been written out
Truncated == [complete |-> FALSE, langchain_messages |-> <<>>]

RECURSIVE ParseMessages(_)
\* _load_existing_sessions, the loop over 'langchain_messages': a record of
\* an unknown type is dropped
ParseMessages(data) ==
    IF data = <<>> THEN <<>>
    ELSE LET m == Head(data)
             rest == ParseMessages(Tail(data))
         IN IF m.type = "human" THEN <<HumanMessage(m.content)>> \o rest
            ELSE IF m.type = "ai" THEN <<AIMessage(m.content)>> \o rest
            ELSE IF m.type = "system" THEN <<SystemMessage(m.content)>> \o rest
            ELSE rest

----------------------------------------------------------------------------
(* The session store on a pair st = [sessions, disk]; io is whether the     *)
(* file system lets the write (or the unlink) through.                      *)

\* the session record save_chat_history and create_chat_history build for
\* an id that is not resident
SessionData(lc_messages) ==
    [langchain_history |-> lc_messages, last_access |-> clock, created_at |-> clock]

\* save_chat_history, the resident record afterwards: a resident session
\* keeps its created_at
UpdatedByExtending(st, history_id, lc_messages) ==
    IF history_id \in DOMAIN st.sessions
    THEN [st.sessions[history_id] EXCEPT !.langchain_history = @ \o lc_messages,
                                         !.last_access = clock]
    ELSE SessionData(lc_messages)

Updated(st, history_id, lc_messages) ==
    IF history_id \in DOMAIN st.sessions
    THEN [st.sessions[history_id] EXCEPT !.langchain_history = lc_messages,
                                         !.last_access = clock]
    ELSE SessionData(lc_messages)

\* _save_session as one call: temp file written and renamed over the
\* target, or the exception logged and the target left as it was
SaveSession(st, session_id, io) ==
    IF session_id \notin DOMAIN st.sessions THEN st
    ELSE IF io
         THEN [st EXCEPT !.disk = Put(st.disk, session_id, SaveData(st.sessions[session_id]))]
         ELSE st

\* _load_existing_sessions: every *.json that json.load accepts replaces
\* the resident entry of its id
LoadExistingSessions(st) ==
    LET readable == {id \in DOMAIN st.disk : st.disk[id].complete}
    IN [st EXCEPT !.sessions =
          [id \in (DOMAIN st.sessions) \cup readable |->
              IF id \in readable
              THEN [langchain_history |-> ParseMessages(st.disk[id].langchain_messages),
                    last_access |-> clock,
                    created_at |-> st.disk[id].created_at]
              ELSE st.sessions[id]]]

\* the ids that resolve to a session: resident, or present as a file
StoredIds(st) == (DOMAIN st.sessions) \cup (DOMAIN st.disk)

\* uuid.uuid4(): an id no session and no file has
FreshIds(st) == Ids \ StoredIds(st)

CreateChatHistoryUnsaved(st, history_id, io) ==
    [st EXCEPT !.sessions = Put(st.sessions, history_id, SessionData(<<>>))]

\* create_chat_history with the id uuid4 returned
CreateChatHistory(st, history_id, io) ==
    SaveSession([st EXCEPT !.sessions = Put(st.sessions, history_id, SessionData(<<>>))],
                history_id, io)

\* get_chat_history: found is FALSE where the code returns None
GetChatHistory(st, history_id) ==
    IF history_id \in DOMAIN st.sessions
    THEN [st |-> [st EXCEPT !.sessions[history_id].last_access = clock],
          found |-> TRUE,
          history |-> st.sessions[history_id].langchain_history]
    ELSE IF history_id \in DOMAIN st.disk
         THEN LET loaded == LoadExistingSessions(st)
              IN IF history_id \in DOMAIN loaded.sessions
                 THEN [st |-> loaded, found |-> TRUE,
                       history |-> loaded.sessions[history_id].langchain_history]
                 ELSE [st |-> loaded, found |-> FALSE, history |-> <<>>]
         ELSE [st |-> st, found |-> FALSE, history |-> <<>>]

\* a save that keeps the resident sequence when the write fails
SaveChatHistoryAllOrNothing(st, history_id, lc_messages, io) ==
    IF io
    THEN SaveSession([st EXCEPT !.sessions = Put(st.sessions, history_id,
                                                 Updated(st, history_id, lc_messages))],
                     history_id, io)
    ELSE st

\* save_chat_history: the whole sequence replaces the stored one; returns True
SaveChatHistory(st, history_id, lc_messages, io) ==
    SaveSession([st EXCEPT !.sessions = Put(st.sessions, history_id,
                                            Updated(st, history_id, lc_messages))],
                history_id, io)

\* delete_session: [st, ok]; the entry is dropped before the unlink is tried
DeleteSession(st, session_id, io) ==
    IF session_id \notin DOMAIN st.sessions THEN [st |-> st, ok |-> FALSE]
    ELSE IF io
         THEN [st |-> [sessions |-> Del(st.sessions, session_id),
                       disk |-> Del(st.disk, session_id)],
               ok |-> TRUE]
         ELSE [st |-> [sessions |-> Del(st.sessions, session_id), disk |-> st.disk],
               ok |-> FALSE]

\* a Message of the schema
Message(role, content) == [role |-> role, content |-> content]

\* convert_to_langchain_messages: a message of an unknown role is skipped
RECURSIVE ConvertToLangchainMessages(_)
ConvertToLangchainMessages(messages) ==
    IF messages = <<>> THEN <<>>
    ELSE LET msg == Head(messages)
             rest == ConvertToLangchainMessages(Tail(messages))
         IN IF msg.role \in {"user", "human"} THEN <<HumanMessage(msg.content)>> \o rest
            ELSE IF msg.role \in {"assistant", "ai"} THEN <<AIMessage(msg.content)>> \o rest
            ELSE IF msg.role = "system" THEN <<SystemMessage(msg.content)>> \o rest
            ELSE rest

\* update_history
UpdateHistory(st, session_id, messages, io) ==
    SaveChatHistory(st, session_id, ConvertToLangchainMessages(messages), io)

\* add_message: [st, ok]; the message is appended to the resident list
AddMessage(st, session_id, lc_message, io) ==
    IF session_id \notin DOMAIN st.sessions THEN [st |-> st, ok |-> FALSE]
    ELSE [st |-> SaveSession(
                    [st EXCEPT !.sessions[session_id].langchain_history = Append(@, lc_message),
                               !.sessions[session_id].last_access = clock],
                    session_id, io),
          ok |-> TRUE]

\* clear_history: [st, ok]
ClearHistory(st, session_id, io) ==
    IF session_id \notin DOMAIN st.sessions THEN [st |-> st, ok |-> FALSE]
    ELSE [st |-> SaveSession(
                    [st EXCEPT !.sessions[session_id].langchain_history = <<>>,
                               !.sessions[session_id].last_access = clock],
                    session_id, io),
          ok |-> TRUE]

\* datetime.fromtimestamp(t): the naive local time of the instant t
FromTimestamp(t) == IF tz = "DST" /\ t >= FoldAt THEN t - FoldBack ELSE t

\* datetime.isoformat(): the seconds, and the fraction only when it is not
\* zero ("...:07" but "...:07.500000")
IsoFormat(d) == IF d % 2 = 0 THEN <<d \div 2>> ELSE <<d \div 2, 5>>

\* a <= b for two such strings, as Python compares str: field by field, a
\* string that is a prefix of another one first
StrLeq(a, b) ==
    \/ a[1] < b[1]
    \/ /\ a[1] = b[1]
       /\ \/ Len(a) = 1
          \/ Len(b) = 2 /\ a[2] <= b[2]

\* list_sessions, one entry of result
Summary(st, session_id) ==
    [session_id |-> session_id,
     message_count |-> Len(st.sessions[session_id].langchain_history),
     last_access |-> IsoFormat(FromTimestamp(st.sessions[session_id].last_access)),
     created_at |-> st.sessions[session_id].created_at]

\* list_sessions: the lists result.sort(key=last_access, reverse=True) can
\* leave, one per order of the dict's items among equal keys
ListSessions(st) ==
    LET ids == DOMAIN st.sessions
        n == Cardinality(ids)
        orders == {f \in [1..n -> ids] : \A id \in ids : \E i \in 1..n : f[i] = id}
        result(f) == [i \in 1..n |-> Summary(st, f[i])]
    IN {result(f) : f \in {g \in orders :
            \A i \in 1..n : \A j \in i..n :
                StrLeq(result(g)[j].last_access, result(g)[i].last_access)}}

----------------------------------------------------------------------------
(* Collaborators: what a retrieval or a completion call can answer *)

\* a chunk of the vector index and a web search hit: page_content and source
LocalDoc == [page_content |-> <<"d">>, source |-> "doc.pdf"]
WebDoc == [page_content |-> <<"w">>, source |-> "http://w"]

NoPrompt == [system |-> "none", context |-> <<>>, history |-> <<>>, question |-> <<>>]

\* one entry of the log of collaborator calls a handler made, in call order:
\* n is the number of documents a retrieval returned
Call(op, ok, prompt, returned) ==
    [op |-> op, ok |-> ok, prompt |-> prompt, n |-> Len(returned), returned |-> returned]

\* what the environment answers during one handler:
\*   fresh      the id uuid4 returns, should the handler create a session
\*   io_create  the durable write of a created session goes through
\*   io_save    the durable write of the final save goes through
\*   local      similarity_search: raises, or returns docs
\*   web        web_search: the hits (it returns [] on its own failures)
\*   tool_ok    the gpt-4o call with the bound web_search_preview tool succeeds
\*   llm_ok     the completion call succeeds
Environments(Fresh, IOs, Locals, Webs, Tools) ==
    [fresh : Fresh, io_create : IOs, io_save : IOs, local : Locals, web : Webs,
     tool_ok : Tools, llm_ok : BOOLEAN]

LocalRaises == [raises |-> TRUE, docs |-> <<>>]
LocalReturns(docs) == [raises |-> FALSE, docs |-> docs]

----------------------------------------------------------------------------
(* DocumentQAService: the strategies.  Each returns                         *)
(* [ok, answer, sources, web_sources, calls]; ok = FALSE is a raised        *)
(* exception.                                                               *)

Outcome(ok, sources, web_sources, calls) ==
    [ok |-> ok, answer |-> IF ok THEN Answer ELSE <<>>,
     sources |-> sources, web_sources |-> web_sources, calls |-> calls]

\* chat_history[:-1]
AllButLast(seq) == SubSeq(seq, 1, Len(seq) - 1)

RECURSIVE Dedup(_)
\* "if source not in source_docs: source_docs.append(source)"
Dedup(seq) ==
    IF seq = <<>> THEN <<>>
    ELSE LET init == Dedup(AllButLast(seq))
             x == seq[Len(seq)]
         IN IF \E i \in 1..Len(init) : init[i] = x THEN init ELSE Append(init, x)

Sources(docs) == Dedup([i \in 1..Len(docs) |-> docs[i].source])
Contents(docs) == [i \in 1..Len(docs) |-> docs[i].page_content]
WebSources(docs) == [i \in 1..Len(docs) |-> [url |-> docs[i].source]]

\* format_chat_history of the three template strategies: the user label for
\* a HumanMessage, the assistant label for a message of any other class
FormatChatHistory(history) ==
    [i \in 1..Len(history) |->
        [role |-> IF history[i].cls = "HumanMessage" THEN "user" ELSE "assistant",
         content |-> history[i].content]]

\* the messages of a chat prompt, as role/content pairs
AsMessages(history) ==
    [i \in 1..Len(history) |->
        [role |-> TypeStr(history[i]), content |-> history[i].content]]

\* _process_with_llm: [system preamble] + chat_history[:-1] + [question]
ProcessWithLLM(question, chat_history, env) ==
    LET prior == IF Len(chat_history) > 1 THEN AllButLast(chat_history) ELSE <<>>
        prompt == [system |-> "plain", context |-> <<>>,
                   history |-> AsMessages(prior), question |-> question]
    IN Outcome(env.llm_ok, <<>>, <<>>, <<Call("llm", env.llm_ok, prompt, <<>>)>>)

\* _process_with_rag: similarity_search(question, k=4), one templated completion
ProcessWithRag(question, chat_history, env) ==
    IF env.local.raises
    THEN Outcome(FALSE, <<>>, <<>>, <<Call("local", FALSE, NoPrompt, <<>>)>>)
    ELSE LET docs == env.local.docs
             prompt == [system |-> "rag", context |-> Contents(docs),
                        history |-> FormatChatHistory(AllButLast(chat_history)),
                        question |-> question]
         IN Outcome(env.llm_ok, Sources(docs), <<>>,
                    <<Call("local", TRUE, NoPrompt, docs),
                      Call("llm", env.llm_ok, prompt, <<>>)>>)

\* format_chat_history of the gpt-4o branch: history[:-1], a message of
\* another class than the three is left out
FormatToolHistory(history) ==
    AsMessages(SelectSeq(AllButLast(history),
                         LAMBDA m : m.cls \in {"HumanMessage", "AIMessage", "SystemMessage"}))

\* the web strategy without its "if not docs" branch: the web template is
\* filled with an empty context
ProcessWithWebSearchNoFallback(question, chat_history, model, env) ==
    LET docs == env.web
        prompt == [system |-> "web", context |-> Contents(docs),
                   history |-> FormatChatHistory(AllButLast(chat_history)),
                   question |-> question]
    IN Outcome(env.llm_ok, <<>>, WebSources(docs),
               <<Call("web", TRUE, NoPrompt, docs),
                 Call("llm", env.llm_ok, prompt, <<>>)>>)

\* _process_with_web_search
ProcessWithWebSearch(question, chat_history, model, env) ==
    LET with_tools == model = "gpt-4o" /\ settings.ENABLE_OPENAI_WEB_SEARCH
        tool_prompt == [system |-> "tools", context |-> <<>>,
                        history |-> FormatToolHistory(chat_history),
                        question |-> question]
        tried == IF with_tools THEN <<Call("llm", env.tool_ok, tool_prompt, <<>>)>> ELSE <<>>
        docs == env.web
        searched == tried \o <<Call("web", TRUE, NoPrompt, docs)>>
        prompt == [system |-> "web", context |-> Contents(docs),
                   history |-> FormatChatHistory(AllButLast(chat_history)),
                   question |-> question]
    IN IF with_tools /\ env.tool_ok
       THEN \* the answer of the tool-bound model; no entry of response.tool_calls
            \* has the type 'web_search_preview', so web_sources stays []
            Outcome(TRUE, <<>>, <<>>, tried)
       ELSE IF docs = <<>>
            THEN LET plain == ProcessWithLLM(question, chat_history, env)
                 IN Outcome(plain.ok, <<>>, <<>>, searched \o plain.calls)
            ELSE Outcome(env.llm_ok, <<>>, WebSources(docs),
                         Append(searched, Call("llm", env.llm_ok, prompt, <<>>)))

\* the hybrid strategy with the web snippets put before the local ones
ProcessWithHybridWebFirst(question, chat_history, env) ==
    IF env.local.raises
    THEN Outcome(FALSE, <<>>, <<>>, <<Call("local", FALSE, NoPrompt, <<>>)>>)
    ELSE LET local_docs == env.local.docs
             web_docs == env.web
             prompt == [system |-> "hybrid",
                        context |-> Contents(web_docs) \o Contents(local_docs),
                        history |-> FormatChatHistory(AllButLast(chat_history)),
                        question |-> question]
         IN Outcome(env.llm_ok, Sources(local_docs), WebSources(web_docs),
                    <<Call("local", TRUE, NoPrompt, local_docs),
                      Call("web", TRUE, NoPrompt, web_docs),
                      Call("llm", env.llm_ok, prompt, <<>>)>>)

\* _process_with_hybrid_retrieval: local (k=3), then web, then one completion
ProcessWithHybridRetrieval(question, chat_history, env) ==
    IF env.local.raises
    THEN Outcome(FALSE, <<>>, <<>>, <<Call("local", FALSE, NoPrompt, <<>>)>>)
    ELSE LET local_docs == env.local.docs
             web_docs == env.web
             prompt == [system |-> "hybrid",
                        context |-> Contents(local_docs) \o Contents(web_docs),
                        history |-> FormatChatHistory(AllButLast(chat_history)),
                        question |-> question]
         IN Outcome(env.llm_ok, Sources(local_docs), WebSources(web_docs),
                    <<Call("local", TRUE, NoPrompt, local_docs),
                      Call("web", TRUE, NoPrompt, web_docs),
                      Call("llm", env.llm_ok, prompt, <<>>)>>)

----------------------------------------------------------------------------
(* DocumentQAService.process_question *)

\* "model = request.model or settings.DEFAULT_MODEL"
ResolvedModel(request) ==
    IF request.model = None THEN settings.DEFAULT_MODEL ELSE request.model

\* the flag alone: the coupling of the model id to web search left out
UseWebSearchFlagOnly(request) == request.use_web_search

\* "use_web_search = True if model == 'gpt-4o' else request.use_web_search"
UseWebSearch(request) ==
    IF ResolvedModel(request) = "gpt-4o" THEN TRUE ELSE request.use_web_search

\* the chain with the local branch tested first
DispatchLocalFirst(web_requested, local_available) ==
    IF local_available THEN "LOCAL_ONLY"
    ELSE IF web_requested THEN "WEB_ONLY"
    ELSE "PLAIN"

\* the if/elif chain that picks the strategy; web_requested is
\* "use_web_search and settings.ENABLE_WEB_SEARCH", local_available is
\* "self.vector_store_manager.vector_store"
Dispatch(web_requested, local_available) ==
    IF web_requested /\ local_available THEN "HYBRID"
    ELSE IF web_requested THEN "WEB_ONLY"
    ELSE IF local_available THEN "LOCAL_ONLY"
    ELSE "PLAIN"

\* "if history_id: history = get_chat_history(history_id); if not history: create":
\* the supplied session is kept when get returned a non-empty list
KeepsSession(request, got) ==
    request.history_id # None /\ got.found /\ got.history # <<>>

\* the session resolution shared by every orchestrator entry:
\* [st, history_id, history, created]
ResolveSession(st, request, env) ==
    LET got == IF request.history_id # None
               THEN GetChatHistory(st, request.history_id)
               ELSE [st |-> st, found |-> FALSE, history |-> <<>>]
    IN IF KeepsSession(request, got)
       THEN [st |-> got.st, history_id |-> request.history_id,
             history |-> got.history, created |-> FALSE]
       ELSE [st |-> CreateChatHistory(got.st, env.fresh, env.io_create),
             history_id |-> env.fresh, history |-> <<>>, created |-> TRUE]

\* the text of the answer field when the handler caught an exception
ErrorMessage == <<"!">>

\* process_question with the question stored before the strategy runs
ProcessQuestionKeepingQuestion(st, request, env) ==
    LET model == ResolvedModel(request)
        use_web_search == UseWebSearch(request)
        res == ResolveSession(st, request, env)
        history == Append(res.history, HumanMessage(request.question))
        web_requested == use_web_search /\ settings.ENABLE_WEB_SEARCH
        mode == Dispatch(web_requested, vector_store)
        out == IF mode = "HYBRID"
               THEN ProcessWithHybridRetrieval(request.question, history, env)
               ELSE IF mode = "WEB_ONLY"
               THEN ProcessWithWebSearch(request.question, history, model, env)
               ELSE IF mode = "LOCAL_ONLY"
               THEN ProcessWithRag(request.question, history, env)
               ELSE ProcessWithLLM(request.question, history, env)
        saved == SaveChatHistory(res.st, res.history_id,
                                 Append(history, AIMessage(out.answer)), env.io_save)
    IN [st |-> IF out.ok THEN saved
               ELSE SaveChatHistory(res.st, res.history_id, history, env.io_save),
        ok |-> out.ok,
        answer |-> IF out.ok THEN out.answer ELSE ErrorMessage,
        sources |-> IF out.ok THEN out.sources ELSE <<>>,
        web_sources |-> IF out.ok THEN out.web_sources ELSE <<>>,
        history_id |-> res.history_id,
        created |-> res.created,
        prior |-> res.history,
        web_requested |-> web_requested,
        local_available |-> vector_store,
        mode |-> mode,
        calls |-> out.calls,
        written |-> out.ok /\ env.io_save]

\* process_question: the store afterwards and the returned dict.  In the
\* except branch history_id is already bound to the resolved id (nothing
\* before the resolution raises), so "history_id or create" creates nothing.
ProcessQuestion(st, request, env) ==
    LET model == ResolvedModel(request)
        use_web_search == UseWebSearch(request)
        res == ResolveSession(st, request, env)
        history == Append(res.history, HumanMessage(request.question))
        web_requested == use_web_search /\ settings.ENABLE_WEB_SEARCH
        mode == Dispatch(web_requested, vector_store)
        out == IF mode = "HYBRID"
               THEN ProcessWithHybridRetrieval(request.question, history, env)
               ELSE IF mode = "WEB_ONLY"
               THEN ProcessWithWebSearch(request.question, history, model, env)
               ELSE IF mode = "LOCAL_ONLY"
               THEN ProcessWithRag(request.question, history, env)
               ELSE ProcessWithLLM(request.question, history, env)
        saved == SaveChatHistory(res.st, res.history_id,
                                 Append(history, AIMessage(out.answer)), env.io_save)
    IN [st |-> IF out.ok THEN saved ELSE res.st,
        ok |-> out.ok,
        answer |-> IF out.ok THEN out.answer ELSE ErrorMessage,
        sources |-> IF out.ok THEN out.sources ELSE <<>>,
        web_sources |-> IF out.ok THEN out.web_sources ELSE <<>>,
        history_id |-> res.history_id,
        created |-> res.created,
        prior |-> res.history,
        web_requested |-> web_requested,
        local_available |-> vector_store,
        mode |-> mode,
        calls |-> out.calls,
        written |-> out.ok /\ env.io_save]

----------------------------------------------------------------------------
(* The state machine *)

Settings == [DEFAULT_MODEL : Models, ENABLE_WEB_SEARCH : BOOLEAN,
             ENABLE_OPENAI_WEB_SEARCH : BOOLEAN]

Requests == [question : Questions, history_id : Ids \cup {None},
             model : Models \cup {None}, use_web_search : BOOLEAN]

NoRequest == [question |-> <<>>, history_id |-> None, model |-> None,
              use_web_search |-> FALSE]

\* the record of a handler that has not answered a question
Idle(op) ==
    [op |-> op, entry |-> "none", request |-> NoRequest, rejected |-> FALSE,
     ok |-> TRUE, answer |-> <<>>, sources |-> <<>>, web_sources |-> <<>>,
     history_id |-> None, created |-> FALSE, prior |-> <<>>,
     web_requested |-> FALSE, local_available |-> FALSE, mode |-> "none",
     calls |-> <<>>, changed |-> FALSE, stored_before |-> {}]

Store == [sessions |-> sessions, disk |-> disk]

\* the turns a session may still take within the bound
Room(st, request) ==
    IF request.history_id \in DOMAIN st.sessions
    THEN Len(st.sessions[request.history_id].langchain_history) < 2 * MaxTurns
    ELSE TRUE

\* the requests that can be in progress at the same time
Procs == {1, 2}

NoRequests == [p \in Procs |-> [pc |-> "idle"]]

Init ==
    /\ sessions = Empty
    /\ disk = Empty
    /\ tmp = Empty
    /\ settings \in Settings
    /\ vector_store = FALSE
    /\ last = Idle("init")
    /\ nproc = [id \in Ids |-> 0]
    /\ byCreate = {}
    /\ saving = [pc |-> "idle"]
    /\ tools = InitTools({})
    /\ stream = [pc |-> "idle"]
    /\ clock = 0
    /\ tz = "UTC"
    /\ reqs = NoRequests

\* the record of a question handler: the request as the adapter received it
Answered(entry, request, r, st) ==
    [op |-> "process", entry |-> entry, request |-> request, rejected |-> FALSE,
     ok |-> r.ok, answer |-> r.answer, sources |-> r.sources,
     web_sources |-> r.web_sources, history_id |-> r.history_id,
     created |-> r.created, prior |-> r.prior, web_requested |-> r.web_requested,
     local_available |-> r.local_available, mode |-> r.mode, calls |-> r.calls,
     written |-> r.written,
     changed |-> r.st # st, stored_before |-> StoredIds(st)]

\* a question handler returns: the store, the log and the per-id counts
Return(entry, request, r) ==
    /\ sessions' = r.st.sessions
    /\ disk' = r.st.disk
    /\ last' = Answered(entry, request, r, Store)
    /\ nproc' = IF r.ok /\ request.history_id # None
                THEN [nproc EXCEPT ![request.history_id] = @ + 1]
                ELSE nproc
    /\ byCreate' = byCreate
    /\ UNCHANGED <<tmp, settings, tools, clock, tz, reqs, vector_store, saving, stream>>

\* POST /session without an id, gradio's init_session: create_chat_history
CreateSession(env) ==
    /\ env.fresh \in FreshIds(Store)
    /\ LET st == CreateChatHistory(Store, env.fresh, env.io_create)
       IN /\ sessions' = st.sessions
          /\ disk' = st.disk
          /\ last' = [Idle("create") EXCEPT !.history_id = env.fresh, !.created = TRUE]
    /\ nproc' = [nproc EXCEPT ![env.fresh] = 0]
    /\ byCreate' = byCreate \cup {env.fresh}
    /\ UNCHANGED <<tmp, settings, tools, clock, tz, reqs, vector_store, saving, stream>>

\* POST {api_prefix}/question of app/api.py
ApiQuestion(request, env) ==
    /\ env.fresh \in FreshIds(Store)
    /\ Room(Store, request)
    /\ IF request.question = <<>>
       THEN \* "if not request.question: raise HTTPException(400)"
            /\ last' = [Idle("process") EXCEPT !.entry = "api", !.request = request,
                                               !.rejected = TRUE]
            /\ UNCHANGED <<sessions, disk, tmp, settings, tools, clock, tz, reqs, vector_store, nproc,
                           byCreate, saving, stream>>
       ELSE LET model == IF request.model = None THEN settings.DEFAULT_MODEL
                         ELSE request.model
                web == IF model = "gpt-4o" /\ settings.ENABLE_OPENAI_WEB_SEARCH
                       THEN TRUE ELSE request.use_web_search
                passed == [request EXCEPT !.model = model, !.use_web_search = web]
            IN Return("api", request, ProcessQuestion(Store, passed, env))

\* POST /document-qa/question of app/api/endpoints/document_qa.py
RouterQuestion(request, env) ==
    /\ env.fresh \in FreshIds(Store)
    /\ Room(Store, request)
    /\ Return("router", request, ProcessQuestion(Store, request, env))

\* an upload builds the vector index: vector_store_manager.vector_store is set
IndexDocuments ==
    /\ ~vector_store
    /\ vector_store' = TRUE
    /\ last' = Idle("upload")
    /\ UNCHANGED <<sessions, disk, tmp, settings, tools, clock, tz, reqs, nproc, byCreate, saving, stream>>

----------------------------------------------------------------------------
(* The operations of the session store, called one at a time *)

\* what an operation was given (io: whether its file operations succeed)
\* and what it returned
Done(op, session_id, io, ok, returned) ==
    [op |-> op, session_id |-> session_id, io |-> io, ok |-> ok, returned |-> returned]

\* an operation leaves the store st behind
Leaves(st) ==
    /\ sessions' = st.sessions
    /\ disk' = st.disk
    /\ UNCHANGED <<tmp, settings, tools, clock, tz, reqs, vector_store, nproc, byCreate, saving, stream>>

Create(history_id, io) ==
    /\ history_id \in FreshIds(Store)
    /\ Leaves(CreateChatHistory(Store, history_id, io))
    /\ last' = Done("create", history_id, io, TRUE, history_id)

ListItself(langchain_history) == [history |-> langchain_history, alias |-> TRUE]

\* list(...) of the resident list: a new list object with the same
\* messages; alias is whether the caller holds the store's own list object
ListCopy(langchain_history) == [history |-> langchain_history, alias |-> FALSE]

Get(history_id) ==
    LET got == GetChatHistory(Store, history_id)
    IN /\ Leaves(got.st)
       /\ last' = Done("get", history_id, TRUE, got.found, ListCopy(got.history))

\* the caller appends to the list the last get returned
CallerAppends(lc_message) ==
    /\ last.op \in {"get", "appended"}
    /\ last.ok
    /\ Len(last.returned.history) < MaxMessages
    /\ last' = [last EXCEPT !.op = "appended", !.returned.history = Append(@, lc_message)]
    /\ IF last.returned.alias /\ last.session_id \in DOMAIN sessions
       THEN sessions' = [sessions EXCEPT ![last.session_id].langchain_history =
                                             Append(@, lc_message)]
       ELSE sessions' = sessions
    /\ UNCHANGED <<disk, tmp, settings, tools, clock, tz, reqs, vector_store, nproc, byCreate, saving,
                   stream>>

Save(history_id, lc_messages, io) ==
    /\ Leaves(SaveChatHistory(Store, history_id, lc_messages, io))
    /\ last' = Done("save", history_id, io, TRUE, lc_messages)

\* update_history, recorded as the save it makes
Update(session_id, messages, io) ==
    /\ Leaves(UpdateHistory(Store, session_id, messages, io))
    /\ last' = Done("save", session_id, io, TRUE, ConvertToLangchainMessages(messages))

Add(session_id, lc_message, io) ==
    /\ IF session_id \in DOMAIN sessions
       THEN Len(sessions[session_id].langchain_history) < MaxMessages
       ELSE TRUE
    /\ LET r == AddMessage(Store, session_id, lc_message, io)
       IN /\ Leaves(r.st)
          /\ last' = Done("add", session_id, io, r.ok, r.ok)

Clear(session_id, io) ==
    LET r == ClearHistory(Store, session_id, io)
    IN /\ Leaves(r.st)
       /\ last' = Done("clear", session_id, io, r.ok, r.ok)

\* DELETE /session/{session_id}: the response made from what delete_session
\* returned
DeleteResponse(session_id, success) ==
    IF ~success
    THEN [status_code |-> 404, detail |-> "session does not exist"]
    ELSE [status_code |-> 200, message |-> "session deleted", session_id |-> session_id]

Delete(session_id, io) ==
    LET r == DeleteSession(Store, session_id, io)
    IN /\ Leaves(r.st)
       /\ last' = Done("delete", session_id, io, r.ok,
                       [success |-> r.ok, response |-> DeleteResponse(session_id, r.ok)])

List ==
    /\ \E result \in ListSessions(Store) : last' = Done("list", None, TRUE, TRUE, result)
    /\ UNCHANGED <<sessions, disk, tmp, settings, tools, clock, tz, reqs, vector_store, nproc, byCreate,
                   saving, stream>>

\* time passes between two operations
Tick ==
    /\ clock < MaxClock
    /\ clock' = clock + 1
    /\ UNCHANGED <<sessions, disk, tmp, settings, tools, tz, reqs, vector_store, last, nproc,
                   byCreate, saving, stream>>

----------------------------------------------------------------------------
(* _save_session statement by statement, on the files fs = [disk, tmp], and *)
(* the process dying in the middle of it                                    *)

Files == [disk |-> disk, tmp |-> tmp]

\* a save that opens file_path itself for writing
OpenTargetForWriting(fs, session_id) ==
    [fs EXCEPT !.disk = Put(fs.disk, session_id, Truncated)]

\* temp_file_path.open('w'): the temp file exists and is empty
OpenForWriting(fs, session_id) ==
    [fs EXCEPT !.tmp = Put(fs.tmp, session_id, Truncated)]

\* json.dump(save_data, f) and the close at the end of the with block
Dump(fs, session_id, save_data) ==
    [fs EXCEPT !.tmp = Put(fs.tmp, session_id, save_data)]

\* os.replace(temp_file_path, file_path)
Replace(fs, session_id) ==
    IF session_id \in DOMAIN fs.tmp
    THEN [disk |-> Put(fs.disk, session_id, fs.tmp[session_id]),
          tmp |-> Del(fs.tmp, session_id)]
    ELSE fs

\* the except branch: "if temp_file_path.exists(): temp_file_path.unlink()",
\* an OSError of the unlink passed over
Cleanup(fs, session_id, io) ==
    IF session_id \in DOMAIN fs.tmp /\ io
    THEN [fs EXCEPT !.tmp = Del(fs.tmp, session_id)]
    ELSE fs

\* the record of file_path before the save touched anything
Durable(fs, session_id) ==
    IF session_id \in DOMAIN fs.disk
    THEN [present |-> TRUE, data |-> fs.disk[session_id]]
    ELSE [present |-> FALSE, data |-> Truncated]

\* save_chat_history up to the try of _save_session: the resident session
\* holds lc_messages and save_data is built from it
SaveBegin(history_id, lc_messages) ==
    /\ saving.pc = "idle"
    /\ sessions' = Put(sessions, history_id, Updated(Store, history_id, lc_messages))
    /\ saving' = [pc |-> "open", at |-> "open", session_id |-> history_id,
                  lc_messages |-> lc_messages,
                  save_data |-> SaveData(Updated(Store, history_id, lc_messages)),
                  old |-> Durable(Files, history_id)]
    /\ UNCHANGED <<disk, tmp, settings, tools, clock, tz, reqs, vector_store, last, nproc, byCreate, stream>>

\* one statement of the try block, or the exception it raises
SaveStep(io) ==
    /\ saving.pc \in {"open", "dump", "replace"}
    /\ LET fs == IF saving.pc = "open" THEN OpenForWriting(Files, saving.session_id)
                 ELSE IF saving.pc = "dump"
                      THEN Dump(Files, saving.session_id, saving.save_data)
                      ELSE Replace(Files, saving.session_id)
           next == IF saving.pc = "open" THEN "dump"
                   ELSE IF saving.pc = "dump" THEN "replace" ELSE "return"
       IN IF io
          THEN /\ disk' = fs.disk
               /\ tmp' = fs.tmp
               /\ saving' = [saving EXCEPT !.pc = next, !.at = next]
          ELSE /\ UNCHANGED <<disk, tmp>>
               /\ saving' = [saving EXCEPT !.pc = "except", !.at = "except"]
    /\ UNCHANGED <<sessions, settings, tools, clock, tz, reqs, vector_store, last, nproc, byCreate, stream>>

\* the except branch of _save_session
SaveExcept(io) ==
    /\ saving.pc = "except"
    /\ LET fs == Cleanup(Files, saving.session_id, io)
       IN /\ disk' = fs.disk
          /\ tmp' = fs.tmp
    /\ saving' = [saving EXCEPT !.pc = "failed", !.at = "failed"]
    /\ UNCHANGED <<sessions, settings, tools, clock, tz, reqs, vector_store, last, nproc, byCreate, stream>>

\* _save_session returns None either way and save_chat_history "return True"
SaveReturn ==
    /\ saving.pc \in {"return", "failed"}
    /\ last' = [op |-> "save", ok |-> TRUE, history_id |-> saving.session_id,
                lc_messages |-> saving.lc_messages, written |-> saving.pc = "return"]
    /\ saving' = [pc |-> "idle"]
    /\ UNCHANGED <<sessions, disk, tmp, settings, tools, clock, tz, reqs, vector_store, nproc, byCreate, stream>>

\* the process dies inside _save_session: the dict is gone, the files stay
Crash ==
    /\ saving.pc \in {"open", "dump", "replace", "except"}
    /\ sessions' = Empty
    /\ saving' = [saving EXCEPT !.pc = "crashed"]
    /\ UNCHANGED <<disk, tmp, settings, tools, clock, tz, reqs, vector_store, last, nproc, byCreate, stream>>

\* SessionService.__init__ over the same directory
Restart ==
    /\ saving.pc = "crashed"
    /\ sessions' = LoadExistingSessions([sessions |-> Empty, disk |-> disk]).sessions
    /\ saving' = [pc |-> "idle"]
    /\ last' = [op |-> "restart", ok |-> TRUE]
    /\ UNCHANGED <<disk, tmp, settings, tools, clock, tz, reqs, vector_store, nproc, byCreate, stream>>

----------------------------------------------------------------------------
(* process_question_stream of DocumentQAService ("qa") and TourGuideService *)
(* ("tour"): an async generator, one action per resumption.  stream.out is  *)
(* what the consumer has received, stream.delivered what the completion     *)
(* stream has produced.                                                     *)

Pair(text, metadata) == [text |-> text, metadata |-> metadata]

\* the None of "yield text_chunk, None"
NoMetadata == [end_of_response |-> FALSE]

\* the dict of the pair that ends a stream
FinalMetadata(sources, web_sources, history_id) ==
    [end_of_response |-> TRUE, sources |-> sources, web_sources |-> web_sources,
     history_id |-> history_id]

\* the dict of the pair the except branch yields
ErrorMetadata == [end_of_response |-> TRUE, error |-> "e"]

\* what the environment answers while the generator runs to its first yield:
\* the web search of the streaming path (search_service.search) can raise
StreamEnvironments(Fresh, IOs, Locals, Webs) ==
    [fresh : Fresh, io_create : IOs, local : Locals, web_raises : BOOLEAN, web : Webs]

\* which retrievals the streaming path consults: "if
\* self.vector_store_manager.vector_store" and "if request.use_web_search and
\* settings.ENABLE_WEB_SEARCH"
StreamConsults(svc, request) ==
    [local |-> svc = "qa" /\ vector_store,
     web |-> svc = "qa" /\ request.use_web_search /\ settings.ENABLE_WEB_SEARCH]

\* "ChatOpenAI(model=request.model, ...)": the model id of the streaming
\* completion is the request's, None when it has none
StreamModel(request) == request.model

\* the retrieval of the qa stream: [raised, docs, web]; the tour guide
\* retrieves nothing.  No document of the model reaches the 8000-character
\* cap on the context.
StreamRetrieval(svc, request, env) ==
    LET local == StreamConsults(svc, request).local
        web == StreamConsults(svc, request).web
    IN IF local /\ env.local.raises THEN [raised |-> TRUE, docs |-> <<>>, web |-> <<>>]
       ELSE IF web /\ env.web_raises
            THEN [raised |-> TRUE, docs |-> IF local THEN env.local.docs ELSE <<>>,
                  web |-> <<>>]
            ELSE [raised |-> FALSE, docs |-> IF local THEN env.local.docs ELSE <<>>,
                  web |-> IF web THEN env.web ELSE <<>>]

\* the except branch: one pair, and the generator is finished
Fail(frame, where) ==
    [frame EXCEPT !.pc = "done", !.raised = where,
                  !.out = Append(@, Pair(ErrorMessage, ErrorMetadata))]

\* from the call to the first "async for": session, user message, retrieval,
\* system prompt and message list
StreamStart(svc, request, env) ==
    /\ stream.pc \in {"idle", "done"}
    /\ env.fresh \in FreshIds(Store)
    /\ Room(Store, request)
    /\ LET res == ResolveSession(Store, request, env)
           history == Append(res.history, HumanMessage(request.question))
           got == StreamRetrieval(svc, request, env)
           context == Contents(got.docs) \o Contents(got.web)
           frame == [pc |-> "streaming", svc |-> svc, request |-> request,
                     history_id |-> res.history_id, history |-> history,
                     created |-> res.created,
                     sources |-> Sources(got.docs), web_sources |-> WebSources(got.web),
                     messages |-> [system |-> IF context # <<>> THEN "context" ELSE "plain",
                                   context |-> context, history |-> AsMessages(history)],
                     full_response |-> <<>>, delivered |-> <<>>, out |-> <<>>,
                     raised |-> "none",
                     consulted |-> StreamConsults(svc, request),
                     local_available |-> vector_store,
                     model |-> StreamModel(request),
                     store |-> Store,
                     before |-> IF request.history_id \in StoredIds(Store)
                                THEN GetChatHistory(Store, request.history_id).history
                                ELSE <<>>]
       IN /\ sessions' = res.st.sessions
          /\ disk' = res.st.disk
          /\ stream' = IF got.raised THEN Fail(frame, "retrieval") ELSE frame
    /\ UNCHANGED <<tmp, settings, tools, clock, tz, reqs, vector_store, last, nproc, byCreate, saving>>

\* the loop body without its "if text_chunk:" test
StreamChunkUnfiltered(text_chunk) ==
    /\ stream.pc = "streaming"
    /\ Len(stream.delivered) < MaxChunks
    /\ stream' = [stream EXCEPT
                    !.delivered = Append(@, text_chunk),
                    !.full_response = @ \o text_chunk,
                    !.out = Append(@, Pair(text_chunk, NoMetadata))]
    /\ UNCHANGED <<sessions, disk, tmp, settings, tools, clock, tz, reqs, vector_store, last, nproc, byCreate,
                   saving>>

\* one turn of "async for chunk in streaming_llm.astream(messages)":
\* "if text_chunk:" forwards a chunk that has text
StreamChunk(text_chunk) ==
    /\ stream.pc = "streaming"
    /\ Len(stream.delivered) < MaxChunks
    /\ stream' = [stream EXCEPT
                    !.delivered = Append(@, text_chunk),
                    !.full_response = IF text_chunk # <<>> THEN @ \o text_chunk ELSE @,
                    !.out = IF text_chunk # <<>>
                            THEN Append(@, Pair(text_chunk, NoMetadata)) ELSE @]
    /\ UNCHANGED <<sessions, disk, tmp, settings, tools, clock, tz, reqs, vector_store, last, nproc, byCreate,
                   saving>>

\* the completion stream raises, before its first chunk or after any
StreamRaise ==
    /\ stream.pc = "streaming"
    /\ stream' = Fail(stream, "completion")
    /\ UNCHANGED <<sessions, disk, tmp, settings, tools, clock, tz, reqs, vector_store, last, nproc, byCreate,
                   saving>>

\* the completion stream is exhausted: assistant message, save, final pair;
\* io is whether the durable write of the save goes through
StreamEnd(io) ==
    /\ stream.pc = "streaming"
    /\ LET history == Append(stream.history, AIMessage(stream.full_response))
           st == SaveChatHistory(Store, stream.history_id, history, io)
       IN /\ sessions' = st.sessions
          /\ disk' = st.disk
          /\ stream' = [stream EXCEPT
                          !.pc = "done", !.history = history,
                          !.raised = IF io THEN "none" ELSE "save",
                          !.out = Append(@, Pair(<<>>, FinalMetadata(stream.sources,
                                                     stream.web_sources,
                                                     stream.history_id)))]
    /\ UNCHANGED <<tmp, settings, tools, clock, tz, reqs, vector_store, last, nproc, byCreate, saving>>

\* the consumer stops pulling: the generator is closed where it is suspended
\* (GeneratorExit at its yield, CancelledError at its await), neither of
\* which "except Exception" catches, and nothing after the loop runs
StreamCancel ==
    /\ stream.pc = "streaming"
    /\ stream' = [stream EXCEPT !.pc = "closed"]
    /\ UNCHANGED <<sessions, disk, tmp, settings, tools, clock, tz, reqs, vector_store, last, nproc, byCreate,
                   saving>>

\* metadata.get(key, default)
GetOr(metadata, key, default) ==
    IF key \in DOMAIN metadata THEN metadata[key] ELSE default

\* an adapter that never sets done
SseEventNeverDone(pair) == [text |-> pair.text, done |-> FALSE]

\* generate() of the two stream endpoints, the body of its loop: the event
\* sent for a pair
SseEvent(pair) ==
    IF pair.metadata.end_of_response
    THEN [text |-> pair.text, done |-> TRUE,
          sources |-> GetOr(pair.metadata, "sources", <<>>),
          web_sources |-> GetOr(pair.metadata, "web_sources", <<>>),
          history_id |-> GetOr(pair.metadata, "history_id", "")]
    ELSE [text |-> pair.text, done |-> FALSE]

\* generate(), its except branch: the event sent when the loop raised
SseErrorEvent == [text |-> ErrorMessage, done |-> TRUE]

\* the events the client of the endpoint has received: one per pair, and
\* when the loop raised on a pair the error event in place of its event
SseEvents ==
    IF stream.pc = "aborted"
    THEN [i \in 1..(Len(stream.out) - 1) |-> SseEvent(stream.out[i])]
             \o <<SseErrorEvent>>
    ELSE [i \in 1..Len(stream.out) |-> SseEvent(stream.out[i])]

\* json.dumps(data) raises on the pair generate() has just received (a
\* source that is no JSON value): error event, and generate() returns
SseRaise ==
    /\ stream.pc \in {"streaming", "done"}
    /\ stream.out # <<>>
    /\ stream' = [stream EXCEPT !.pc = "aborted"]
    /\ UNCHANGED <<sessions, disk, tmp, settings, tools, clock, tz, reqs, vector_store, last, nproc,
                   byCreate, saving>>

----------------------------------------------------------------------------
(* TourGuideService.process_question.  The service is built with the tools  *)
(* _init_tools returned; the agent is compiled iff that list is non-empty.  *)

\* str.lower() on the letters tool names are written with
Lower(name) ==
    [i \in 1..Len(name) |->
        IF name[i] = "M" THEN "m"
        ELSE IF name[i] = "A" THEN "a"
        ELSE IF name[i] = "P" THEN "p"
        ELSE name[i]]

\* "pat in name"
In(pat, name) ==
    \E i \in 1..(Len(name) - Len(pat) + 1) : SubSeq(name, i, i + Len(pat) - 1) = pat

\* "'amap' in tool_name.lower() or 'map' in tool_name.lower()"
IsMapTool(tool_name) ==
    \/ In(<<"a", "m", "a", "p">>, Lower(tool_name))
    \/ In(<<"m", "a", "p">>, Lower(tool_name))

\* the full stop put after an answer that ends with no punctuation mark, and
\* the line that names the map data as the source
Stop == <<".">>
Provenance == <<"#">>

\* the note on an answer for which any tool at all was recorded
NotedForAnyTool(answer, tool_calls) ==
    IF tool_calls # <<>>
    THEN (IF answer # <<>> /\ answer[Len(answer)] = "." THEN answer ELSE answer \o Stop)
         \o Provenance
    ELSE answer

\* "if amap_used: if not answer.endswith(...): answer += stop; answer += note"
Noted(answer, tool_calls) ==
    IF \E i \in 1..Len(tool_calls) : IsMapTool(tool_calls[i])
    THEN (IF answer # <<>> /\ answer[Len(answer)] = "." THEN answer ELSE answer \o Stop)
         \o Provenance
    ELSE answer

\* what the environment answers during one tour guide handler: the session
\* part as for the other handlers, the names in the tool_calls of the
\* agent's messages, the content of its last message, and whether the agent
\* or the completion call succeeds
TourEnvironments(Fresh, IOs, Held, Answers) ==
    [fresh : Fresh, io_create : IOs, io_save : IOs,
     tool_calls : {<<>>} \cup {<<t>> : t \in Held}
                  \cup {<<t, u>> : t \in Held, u \in Held},
     content : Answers, llm_ok : BOOLEAN]

\* process_question of the tour guide: the store afterwards and the result
TourProcessQuestion(st, request, env) ==
    LET res == ResolveSession(st, request, env)
        history == Append(res.history, HumanMessage(request.question))
        agent == tools # {}
        prior == IF Len(history) > 1 THEN AllButLast(history) ELSE <<>>
        calls == IF agent
                 THEN <<Call("agent", env.llm_ok,
                             [system |-> "configured", context |-> <<>>,
                              history |-> AsMessages(history), question |-> <<>>],
                             <<>>)>>
                 ELSE <<Call("llm", env.llm_ok,
                             [system |-> "tour", context |-> <<>>,
                              history |-> AsMessages(prior),
                              question |-> request.question],
                             <<>>)>>
        tool_calls == IF agent THEN env.tool_calls ELSE <<>>
        answer == IF agent THEN Noted(env.content, tool_calls) ELSE env.content
        saved == SaveChatHistory(res.st, res.history_id,
                                 Append(history, AIMessage(answer)), env.io_save)
    IN [st |-> IF env.llm_ok THEN saved ELSE res.st,
        ok |-> env.llm_ok,
        answer |-> IF env.llm_ok THEN answer ELSE ErrorMessage,
        content |-> env.content,
        tool_calls |-> IF env.llm_ok THEN tool_calls ELSE <<>>,
        tools_used |-> IF env.llm_ok
                       THEN {tool_calls[i] : i \in 1..Len(tool_calls)} ELSE {},
        history_id |-> res.history_id,
        created |-> res.created,
        prior |-> res.history,
        calls |-> calls]

\* the record of a tour guide handler
Toured(request, r) ==
    [op |-> "tour", request |-> request, ok |-> r.ok, answer |-> r.answer,
     content |-> r.content, tool_calls |-> r.tool_calls, tools_used |-> r.tools_used,
     history_id |-> r.history_id, created |-> r.created, prior |-> r.prior,
     calls |-> r.calls]

\* POST /tour-guide
TourQuestion(request, env) ==
    /\ env.fresh \in FreshIds(Store)
    /\ Room(Store, request)
    /\ LET r == TourProcessQuestion(Store, request, env)
       IN /\ sessions' = r.st.sessions
          /\ disk' = r.st.disk
          /\ last' = Toured(request, r)
    /\ UNCHANGED <<tmp, settings, tools, clock, tz, reqs, vector_store, nproc, byCreate,
                   saving, stream>>

----------------------------------------------------------------------------
(* The temperature of the completion call.  Temperatures are decimal        *)
(* numerals; a request without one carries None.                            *)

Temperatures == {"0.0", "0.3"}

\* bool(x) of an Optional[float]: None and 0.0 are false
Truthy(x) == x \notin {None, "0.0"}

\* "x or y"
Or(x, y) == IF Truthy(x) THEN x ELSE y

\* "temperature = request.temperature or settings.DEFAULT_TEMPERATURE"
ResolvedTemperature(request) == Or(request.temperature, settings.DEFAULT_TEMPERATURE)

\* the temperature no call site sets: ChatOpenAI(model=...) keeps its own
Unset == "unset"

\* process_question: every strategy builds ChatOpenAI(model, temperature)
BlockingTemperature(request) == ResolvedTemperature(request)

\* process_question_stream: ChatOpenAI(model, temperature, streaming=True)
StreamTemperature(request) == ResolvedTemperature(request)

\* the tour guide: the agent completes with self.model, built in __init__
\* without a temperature; the toolless branch builds ChatOpenAI(temperature)
TourTemperature(request) ==
    IF tools # {} THEN Unset ELSE ResolvedTemperature(request)

\* process_question_stream of the tour guide
TourStreamTemperature(request) == ResolvedTemperature(request)

TemperatureRequests ==
    [question : {<<"q">>}, history_id : {None}, model : {None, "gpt-4o"},
     use_web_search : {FALSE}, temperature : Temperatures \cup {None}]

\* the record of the completion call a path makes for a request
Completes(path, request, temperature) ==
    /\ last' = [op |-> "completion", path |-> path, request |-> request,
                temperature |-> temperature]
    /\ UNCHANGED <<sessions, disk, tmp, settings, tools, clock, tz, reqs, vector_store, nproc,
                   byCreate, saving, stream>>

BlockingCompletes(request) == Completes("blocking", request, BlockingTemperature(request))
StreamCompletes(request) == Completes("stream", request, StreamTemperature(request))
TourCompletes(request) == Completes("tour", request, TourTemperature(request))
TourStreamCompletes(request) ==
    Completes("tour_stream", request, TourStreamTemperature(request))

----------------------------------------------------------------------------
(* Requests in progress at the same time on one store.  On the event loop a *)
(* request gives way only where it awaits the completion (the streaming     *)
(* generators; the blocking process_question never does); in the worker     *)
(* threads of the Gradio handlers it can give way between any two           *)
(* statements of save_chat_history, which takes no lock.                    *)

\* the texts the two requests ask
QuestionOf(p) == IF p = 1 THEN <<"q">> ELSE <<"r">>

ConcRequest(p, history_id) ==
    [question |-> QuestionOf(p), history_id |-> history_id, model |-> None,
     use_web_search |-> FALSE]

\* a request that reads the stored sequence again when it saves
TurnOnStored(frame, stored) ==
    stored \o <<HumanMessage(frame.request.question), AIMessage(Answer)>>

\* "history.append(AIMessage(content=answer))": what the request saves is
\* the list it loaded at its start with its own two messages, whatever is
\* stored by now
Turn(frame, stored) == Append(frame.history, AIMessage(Answer))

\* the sequence the store holds for an id
Stored(history_id) ==
    IF history_id \in DOMAIN sessions THEN sessions[history_id].langchain_history
    ELSE <<>>

\* the frame of a request that has loaded its session and appended its question
Asked(request, res) ==
    [pc |-> "asked", request |-> request, history_id |-> res.history_id,
     created |-> res.created, prior |-> res.history,
     history |-> Append(res.history, HumanMessage(request.question))]

\* from the call to the completion call: session, user message
Begin(p, request, env) ==
    /\ reqs[p].pc = "idle"
    /\ env.fresh \in FreshIds(Store)
    /\ LET res == ResolveSession(Store, request, env)
       IN /\ sessions' = res.st.sessions
          /\ disk' = res.st.disk
          /\ reqs' = [reqs EXCEPT ![p] = Asked(request, res)]
    /\ UNCHANGED <<tmp, settings, tools, clock, tz, vector_store, last, nproc, byCreate, saving,
                   stream>>

\* from the completion to the return with no other request in between:
\* assistant message and save_chat_history
Finish(p, io) ==
    /\ reqs[p].pc = "asked"
    /\ LET history == Turn(reqs[p], Stored(reqs[p].history_id))
           st == SaveChatHistory(Store, reqs[p].history_id, history, io)
       IN /\ sessions' = st.sessions
          /\ disk' = st.disk
          /\ reqs' = [reqs EXCEPT ![p].pc = "done", ![p].history = history]
    /\ UNCHANGED <<tmp, settings, tools, clock, tz, vector_store, last, nproc, byCreate, saving,
                   stream>>

\* a blocking request on the event loop: from its call to its return
Blocking(p, request, env, io) ==
    /\ reqs[p].pc = "idle"
    /\ env.fresh \in FreshIds(Store)
    /\ LET res == ResolveSession(Store, request, env)
           frame == Asked(request, res)
           history == Turn(frame, res.history)
           st == SaveChatHistory(res.st, res.history_id, history, io)
       IN /\ sessions' = st.sessions
          /\ disk' = st.disk
          /\ reqs' = [reqs EXCEPT ![p] = [frame EXCEPT !.pc = "done", !.history = history]]
    /\ UNCHANGED <<tmp, settings, tools, clock, tz, vector_store, last, nproc, byCreate, saving,
                   stream>>

\* a thread in save_chat_history, up to the call of _save_session: the
\* resident session holds the request's list
Assign(p) ==
    /\ reqs[p].pc = "asked"
    /\ LET history == Turn(reqs[p], Stored(reqs[p].history_id))
       IN /\ sessions' = Put(sessions, reqs[p].history_id,
                             Updated(Store, reqs[p].history_id, history))
          /\ reqs' = [reqs EXCEPT ![p].pc = "assigned", ![p].history = history]
    /\ UNCHANGED <<disk, tmp, settings, tools, clock, tz, vector_store, last, nproc, byCreate,
                   saving, stream>>

\* _save_session up to its try: save_data is built from the entry the dict
\* holds now, or the call returns when the dict has none
Serialize(p) ==
    /\ reqs[p].pc = "assigned"
    /\ reqs' = IF reqs[p].history_id \in DOMAIN sessions
               THEN [reqs EXCEPT ![p] = [pc |-> "serialized", request |-> @.request,
                                         history_id |-> @.history_id,
                                         created |-> @.created, prior |-> @.prior,
                                         history |-> @.history,
                                         save_data |-> SaveData(sessions[@.history_id])]]
               ELSE [reqs EXCEPT ![p].pc = "done"]
    /\ UNCHANGED <<sessions, disk, tmp, settings, tools, clock, tz, vector_store, last, nproc,
                   byCreate, saving, stream>>

\* the try of _save_session: save_data reaches the file, or the exception is
\* logged; save_chat_history returns True
WriteOut(p, io) ==
    /\ reqs[p].pc = "serialized"
    /\ disk' = IF io THEN Put(disk, reqs[p].history_id, reqs[p].save_data) ELSE disk
    /\ reqs' = [reqs EXCEPT ![p].pc = "done"]
    /\ UNCHANGED <<sessions, tmp, settings, tools, clock, tz, vector_store, last, nproc, byCreate,
                   saving, stream>>

\* another SessionService of the process (each service and each endpoint
\* module builds its own over the same directory) writes a session of its own
OtherStoreSaves(history_id, lc_messages) ==
    /\ history_id \in FreshIds(Store)
    /\ disk' = Put(disk, history_id, SaveData(SessionData(lc_messages)))
    /\ UNCHANGED <<sessions, tmp, settings, tools, clock, tz, reqs, vector_store, last, nproc,
                   byCreate, saving, stream>>

\* save_chat_history of another SessionService of the process, on any id: its
\* durable write goes through and replaces the record of the id; the resident
\* sessions of this store are not its own
PeerSaves(history_id, lc_messages) ==
    /\ disk' = Put(disk, history_id, SaveData(SessionData(lc_messages)))
    /\ last' = Done("peer_save", history_id, TRUE, TRUE, lc_messages)
    /\ UNCHANGED <<sessions, tmp, settings, tools, clock, tz, reqs, vector_store, nproc,
                   byCreate, saving, stream>>

\* get_session_count
GetSessionCount(st) == Cardinality(DOMAIN st.sessions)

\* GET /status reads the count of its module's store
Count ==
    /\ last' = Done("count", None, TRUE, TRUE, [active_sessions |-> GetSessionCount(Store)])
    /\ UNCHANGED <<sessions, disk, tmp, settings, tools, clock, tz, reqs, vector_store, nproc,
                   byCreate, saving, stream>>

----------------------------------------------------------------------------
(* Specifications.  Each draws the requests and the collaborators' answers  *)
(* from the sets its claims are about.                                      *)

Reliable == {TRUE}
Retrievals == {LocalRaises, LocalReturns(<<>>), LocalReturns(<<LocalDoc>>)}
Hits == {<<>>, <<WebDoc>>}

\* Sessions: a real question on any id or none, the default model
SessionRequests ==
    [question : {<<"q">>}, history_id : Ids \cup {None}, model : {None},
     use_web_search : {FALSE}]
SessionEnvs ==
    Environments(Ids, Reliable, {LocalRaises, LocalReturns(<<LocalDoc>>)}, {<<>>},
                 {TRUE})

Next ==
    \/ \E env \in SessionEnvs : CreateSession(env)
    \/ \E request \in SessionRequests, env \in SessionEnvs : ApiQuestion(request, env)
    \/ \E request \in SessionRequests, env \in SessionEnvs : RouterQuestion(request, env)
    \/ IndexDocuments

Spec == Init /\ [][Next]_vars

\* Modes: every model, flag and collaborator answer, on a store that was
\* constructed over a directory holding one session of one turn
OneTurn == <<HumanMessage(<<"q">>), AIMessage(Answer)>>

InitMode ==
    /\ clock = 0
    /\ tz = "UTC"
    /\ reqs = NoRequests
    /\ sessions = [id \in {"s1"} |-> SessionData(OneTurn)]
    /\ disk = [id \in {"s1"} |-> SaveData(SessionData(OneTurn))]
    /\ tmp = Empty
    /\ settings \in Settings
    /\ vector_store = FALSE
    /\ last = Idle("init")
    /\ nproc = [id \in Ids |-> 0]
    /\ byCreate = {}
    /\ saving = [pc |-> "idle"]
    /\ tools = InitTools({})
    /\ stream = [pc |-> "idle"]

ModeRequests ==
    [question : {<<"q">>}, history_id : {"s1"}, model : Models \cup {None},
     use_web_search : BOOLEAN]
ModeEnvs == Environments({"s2"}, Reliable, Retrievals, Hits, BOOLEAN)

NextMode ==
    \/ \E request \in ModeRequests, env \in ModeEnvs : ApiQuestion(request, env)
    \/ \E request \in ModeRequests, env \in ModeEnvs : RouterQuestion(request, env)
    \/ IndexDocuments

SpecMode == InitMode /\ [][NextMode]_vars

\* Store: saves of several sequences under two ids, every file operation
\* free to fail, and the process free to die between any two of them
Histories ==
    {<<>>, OneTurn, OneTurn \o OneTurn,
     <<SystemMessage(<<"s">>), HumanMessage(<<"q">>)>>}

NextStore ==
    \/ \E history_id \in {"s1", "s2"}, lc_messages \in Histories :
          SaveBegin(history_id, lc_messages)
    \/ \E io \in BOOLEAN : SaveStep(io)
    \/ \E io \in BOOLEAN : SaveExcept(io)
    \/ SaveReturn
    \/ Crash
    \/ Restart

\* the store reads no setting: one configuration stands for all
InitStore ==
    /\ Init
    /\ settings = [DEFAULT_MODEL |-> "gpt-3.5-turbo", ENABLE_WEB_SEARCH |-> FALSE,
                   ENABLE_OPENAI_WEB_SEARCH |-> FALSE]

SpecStore == InitStore /\ [][NextStore]_vars

\* Streams: one call of either service, with and without a session id and
\* the web flag, every retrieval outcome and every chunk, the writes free to
\* fail
StreamRequests ==
    [question : {<<"q">>}, history_id : {"s1", "s3", None}, model : {"gpt-4o"},
     use_web_search : BOOLEAN]
StreamEnvs == StreamEnvironments({"s2"}, BOOLEAN, Retrievals, Hits)

NextStream ==
    \/ /\ stream.pc = "idle"
       /\ \E svc \in {"qa", "tour"}, request \in StreamRequests, env \in StreamEnvs :
             StreamStart(svc, request, env)
    \/ \E text_chunk \in Chunks : StreamChunk(text_chunk)
    \/ StreamRaise
    \/ \E io \in BOOLEAN : StreamEnd(io)
    \/ StreamCancel
    \/ SseRaise
    \/ IndexDocuments

\* the streaming path reads ENABLE_WEB_SEARCH and no other switch
InitStream ==
    /\ InitMode
    /\ settings.DEFAULT_MODEL = "gpt-4o"
    /\ ~settings.ENABLE_OPENAI_WEB_SEARCH

SpecStream == InitStream /\ [][NextStream]_vars

\* Hybrid: questions of a web-searching model on an indexed store, the two
\* retrievals returning up to two results each, in either order
OtherLocalDoc == [page_content |-> <<"e">>, source |-> "doc.pdf"]
OtherWebDoc == [page_content |-> <<"x">>, source |-> "http://x"]
HybridRetrievals ==
    {LocalRaises, LocalReturns(<<>>), LocalReturns(<<LocalDoc, OtherLocalDoc>>),
     LocalReturns(<<OtherLocalDoc, LocalDoc>>)}
HybridHits == {<<>>, <<WebDoc, OtherWebDoc>>, <<OtherWebDoc, WebDoc>>}
HybridRequests ==
    [question : {<<"q">>}, history_id : {"s1"}, model : {"gpt-4o", None},
     use_web_search : {FALSE}]
HybridEnvs == Environments({"s2"}, {TRUE}, HybridRetrievals, HybridHits, {TRUE})

NextHybrid ==
    \/ \E request \in HybridRequests, env \in HybridEnvs : RouterQuestion(request, env)
    \/ IndexDocuments

SpecHybrid == InitMode /\ [][NextHybrid]_vars

\* Prompts: questions, blocking and streamed, on a session whose history was
\* replaced through update_history by one that opens with a system message
WithSystem ==
    <<Message("system", <<"s">>), Message("user", <<"p">>), Message("assistant", <<"a">>)>>
PromptRequests ==
    [question : {<<"q">>}, history_id : {"s1"}, model : {None},
     use_web_search : {FALSE}]
PromptEnvs ==
    Environments({"s2"}, {TRUE}, {LocalReturns(<<LocalDoc>>)}, Hits, BOOLEAN)
PromptStreamEnvs ==
    StreamEnvironments({"s2"}, {TRUE}, {LocalReturns(<<LocalDoc>>)}, {<<WebDoc>>})

NextPrompt ==
    \/ /\ sessions["s1"].langchain_history = OneTurn
       /\ Update("s1", WithSystem, TRUE)
    \/ \E request \in PromptRequests, env \in PromptEnvs : RouterQuestion(request, env)
    \/ /\ stream.pc = "idle"
       /\ \E request \in PromptRequests, env \in PromptStreamEnvs :
             StreamStart("qa", request, env)
    \/ IndexDocuments

InitPrompt == InitMode /\ settings.DEFAULT_MODEL = "gpt-4o"

SpecPrompt == InitPrompt /\ [][NextPrompt]_vars

\* Tour guide: questions to a service built with or without the tools of
\* the map service, the agent recording up to two tool invocations
TourRequests == [question : {<<"q">>}, history_id : {"s1", None}]
TourEnvs ==
    TourEnvironments({"s2"}, {TRUE}, tools, {Answer, Answer \o Stop})

InitTour ==
    /\ clock = 0
    /\ tz = "UTC"
    /\ reqs = NoRequests
    /\ sessions = [id \in {"s1"} |-> SessionData(OneTurn)]
    /\ disk = [id \in {"s1"} |-> SaveData(SessionData(OneTurn))]
    /\ tmp = Empty
    /\ settings = [DEFAULT_MODEL |-> "gpt-4o", ENABLE_WEB_SEARCH |-> FALSE,
                   ENABLE_OPENAI_WEB_SEARCH |-> FALSE]
    /\ vector_store = FALSE
    /\ last = Idle("init")
    /\ nproc = [id \in Ids |-> 0]
    /\ byCreate = {}
    /\ saving = [pc |-> "idle"]
    /\ stream = [pc |-> "idle"]
    /\ tools \in {InitTools(mcp_tools) : mcp_tools \in SUBSET AmapTools}

NextTour == \E request \in TourRequests, env \in TourEnvs : TourQuestion(request, env)

SpecTour == InitTour /\ [][NextTour]_vars

\* Selection: one streaming call of the qa service for every model id, flag,
\* switch and state of the index
SameRequests ==
    [question : {<<"q">>}, history_id : {"s1"}, model : Models \cup {None},
     use_web_search : BOOLEAN]
SameEnvs == StreamEnvironments({"s2"}, {TRUE}, {LocalReturns(<<LocalDoc>>)}, {<<WebDoc>>})

NextSame ==
    \/ /\ stream.pc = "idle"
       /\ \E request \in SameRequests, env \in SameEnvs : StreamStart("qa", request, env)
    \/ IndexDocuments

SpecSame == InitMode /\ [][NextSame]_vars

\* Faults: the default request with or without a session id, every
\* collaborator and every durable write free to fail
FaultRequests ==
    [question : {<<"q">>}, history_id : {"s1", None}, model : {None},
     use_web_search : {FALSE}]
FaultEnvs == Environments({"s2"}, BOOLEAN, Retrievals, Hits, BOOLEAN)

NextFault ==
    \/ \E request \in FaultRequests, env \in FaultEnvs : RouterQuestion(request, env)
    \/ IndexDocuments

SpecFault == InitMode /\ [][NextFault]_vars

\* Operations: every store operation on two ids, the durable writes of
\* create and the unlink of delete free to fail
OpIds == {"s1", "s2"}

NextOps ==
    \/ \E history_id \in OpIds, io \in BOOLEAN : Create(history_id, io)
    \/ \E history_id \in OpIds : Get(history_id)
    \/ CallerAppends(HumanMessage(<<"q">>))
    \/ \E history_id \in OpIds, lc_messages \in {<<>>, OneTurn} :
          Save(history_id, lc_messages, TRUE)
    \/ \E session_id \in OpIds :
          Update(session_id, <<Message("user", <<"q">>), Message("assistant", Answer)>>, TRUE)
    \/ \E session_id \in OpIds : Add(session_id, HumanMessage(<<"q">>), TRUE)
    \/ \E session_id \in OpIds : Clear(session_id, TRUE)
    \/ \E session_id \in OpIds, io \in BOOLEAN : Delete(session_id, io)
    \/ List
    \/ Tick

InitOps ==
    /\ clock = 0
    /\ tz \in TimeZones
    /\ reqs = NoRequests
    /\ sessions = Empty
    /\ disk = Empty
    /\ tmp = Empty
    /\ settings = [DEFAULT_MODEL |-> "gpt-3.5-turbo", ENABLE_WEB_SEARCH |-> FALSE,
                   ENABLE_OPENAI_WEB_SEARCH |-> FALSE]
    /\ vector_store = FALSE
    /\ last = Idle("init")
    /\ nproc = [id \in Ids |-> 0]
    /\ byCreate = {}
    /\ saving = [pc |-> "idle"]
    /\ tools = InitTools({})
    /\ stream = [pc |-> "idle"]

SpecOps == InitOps /\ [][NextOps]_vars

\* Event loop: two requests on the sessions s1 and s2, streaming or blocking,
\* interleaved where the streaming ones await
ConcEnvs == [fresh : {"s3"}, io_create : {TRUE}]

InitConc ==
    /\ InitMode
    /\ settings = [DEFAULT_MODEL |-> "gpt-3.5-turbo", ENABLE_WEB_SEARCH |-> FALSE,
                   ENABLE_OPENAI_WEB_SEARCH |-> FALSE]

NextAsync ==
    \/ \E p \in Procs, history_id \in {"s1", "s2"}, env \in ConcEnvs :
          Begin(p, ConcRequest(p, history_id), env)
    \/ \E p \in Procs, io \in BOOLEAN : Finish(p, io)
    \/ \E p \in Procs, history_id \in {"s1", "s2"}, env \in ConcEnvs, io \in BOOLEAN :
          Blocking(p, ConcRequest(p, history_id), env, io)
    \/ OtherStoreSaves("s2", OneTurn)

SpecAsync == InitConc /\ [][NextAsync]_vars

\* Threads: the same two requests, interleaved statement by statement in
\* save_chat_history, every write going through
NextThreads ==
    \/ \E p \in Procs, history_id \in {"s1", "s2"}, env \in ConcEnvs :
          Begin(p, ConcRequest(p, history_id), env)
    \/ \E p \in Procs : Assign(p)
    \/ \E p \in Procs : Serialize(p)
    \/ \E p \in Procs : WriteOut(p, TRUE)
    \/ OtherStoreSaves("s2", OneTurn)

SpecThreads == InitConc /\ [][NextThreads]_vars

\* Temperatures: the temperature each path hands to its completion call, for
\* requests with no temperature, with 0 and with another value
NextTemperature ==
    \E request \in TemperatureRequests :
        \/ BlockingCompletes(request)
        \/ StreamCompletes(request)
        \/ TourCompletes(request)
        \/ TourStreamCompletes(request)

InitTemperature ==
    /\ clock = 0
    /\ tz = "UTC"
    /\ reqs = NoRequests
    /\ sessions = [id \in {"s1"} |-> SessionData(OneTurn)]
    /\ disk = [id \in {"s1"} |-> SaveData(SessionData(OneTurn))]
    /\ tmp = Empty
    /\ settings \in [DEFAULT_MODEL : Models, ENABLE_WEB_SEARCH : {FALSE},
                     ENABLE_OPENAI_WEB_SEARCH : {FALSE},
                     DEFAULT_TEMPERATURE : {"0.5", "0.7"}]
    /\ vector_store = FALSE
    /\ last = Idle("init")
    /\ nproc = [id \in Ids |-> 0]
    /\ byCreate = {}
    /\ saving = [pc |-> "idle"]
    /\ stream = [pc |-> "idle"]
    /\ tools \in {InitTools(mcp_tools) : mcp_tools \in SUBSET AmapTools}

SpecTemperature == InitTemperature /\ [][NextTemperature]_vars

\* Peers: one store reads (get, list, count) while another store of the
\* process saves sessions, new ones and the one this store holds
NextPeers ==
    \/ \E history_id \in OpIds, lc_messages \in {OneTurn, OneTurn \o OneTurn} :
          PeerSaves(history_id, lc_messages)
    \/ \E history_id \in OpIds : Get(history_id)
    \/ List
    \/ Count

SpecPeers == InitConc /\ [][NextPeers]_vars

\* Entries: every question text, through each adapter
EntryRequests ==
    [question : Questions, history_id : {"s1", None}, model : {None},
     use_web_search : {FALSE}]
EntryEnvs == Environments(Ids, Reliable, {LocalReturns(<<LocalDoc>>)}, {<<>>}, {TRUE})

NextEntry ==
    \/ \E request \in EntryRequests, env \in EntryEnvs : ApiQuestion(request, env)
    \/ \E request \in EntryRequests, env \in EntryEnvs : RouterQuestion(request, env)

SpecEntry == Init /\ [][NextEntry]_vars

----------------------------------------------------------------------------
(* Claims about sessions, checked under Spec *)

History(id) == sessions[id].langchain_history

\* user, assistant, user, assistant, ...
Alternates(history) ==
    \A i \in 1..Len(history) :
        history[i].cls = (IF i % 2 = 1 THEN "HumanMessage" ELSE "AIMessage")

\* a question handler ran the orchestrator
Processed == last.op = "process" /\ ~last.rejected

\* C1: after N >= 1 successful process() calls that all supplied the id of a
\* session made by create(), the sequence stored under that id has length 2N
\* and alternates user, assistant, ...
C1_AppendInvariant ==
    \A id \in byCreate :
        nproc[id] >= 1 =>
            /\ id \in DOMAIN sessions
            /\ Len(History(id)) = 2 * nproc[id]
            /\ Alternates(History(id))

\* C2: process() creates a session iff the request's id is absent or names no
\* stored session; an id that names one (of any length, zero included) is the
\* result's id, and the store holds the sessions it held
C2_CreatesIffUnresolved ==
    Processed =>
        LET supplied == last.request.history_id
            resolves == supplied \in last.stored_before
        IN /\ last.created <=> ~resolves
           /\ resolves => /\ last.history_id = supplied
                          /\ StoredIds(Store) = last.stored_before

----------------------------------------------------------------------------
(* Claims about mode selection, checked under SpecMode *)

Modes == {"HYBRID", "WEB_ONLY", "LOCAL_ONLY", "PLAIN"}

WebMode == last.mode \in {"HYBRID", "WEB_ONLY"}

CallsOf(op) == {i \in 1..Len(last.calls) : last.calls[i].op = op}

\* the system instructions a strategy may send to the completion capability
PromptsOf(mode) ==
    IF mode = "HYBRID" THEN {"hybrid"}
    ELSE IF mode = "WEB_ONLY" THEN {"tools", "web", "plain"}
    ELSE IF mode = "LOCAL_ONLY" THEN {"rag"}
    ELSE {"plain"}

\* C3: every request is dispatched to exactly one of the four strategies,
\* HYBRID iff web_requested and local_available, WEB_ONLY iff web_requested
\* and not local_available, LOCAL_ONLY iff not web_requested and
\* local_available, PLAIN otherwise; every retrieval and completion call of the
\* request is one of that strategy
C3_ModeSelection ==
    Processed =>
        /\ last.mode \in Modes
        /\ last.mode = "HYBRID" <=> (last.web_requested /\ last.local_available)
        /\ last.mode = "WEB_ONLY" <=> (last.web_requested /\ ~last.local_available)
        /\ last.mode = "LOCAL_ONLY" <=> (~last.web_requested /\ last.local_available)
        /\ last.mode = "PLAIN" <=> (~last.web_requested /\ ~last.local_available)
        /\ CallsOf("local") # {} => last.mode \in {"HYBRID", "LOCAL_ONLY"}
        /\ CallsOf("web") # {} => WebMode
        /\ \A i \in CallsOf("llm") : last.calls[i].prompt.system \in PromptsOf(last.mode)

\* a second request on the session was answered in HYBRID mode
C3_Witness ==
    /\ Processed
    /\ last.mode = "HYBRID"
    /\ nproc["s1"] = 2
    /\ CallsOf("llm") # {}

\* C4 as stated: web_requested is the explicit flag, or gpt-4o with the
\* global flag enabled; an explicit flag always gets a web strategy
C4_WebRequestedAsClaimed ==
    Processed =>
        LET flag == last.request.use_web_search
            capable == last.request.model = "gpt-4o"
        IN /\ last.web_requested <=> (flag \/ (capable /\ settings.ENABLE_WEB_SEARCH))
           /\ flag => WebMode
           /\ (capable /\ ~flag) => (WebMode <=> settings.ENABLE_WEB_SEARCH)

\* C4, amended: web_requested is (the explicit flag, or the model id being
\* gpt-4o once an absent id is replaced by the default model) and the global
\* ENABLE_WEB_SEARCH flag; the request gets a web strategy exactly then
C4_WebRequested ==
    Processed =>
        LET flag == last.request.use_web_search
            model == IF last.request.model = None THEN settings.DEFAULT_MODEL
                     ELSE last.request.model
            wanted == (flag \/ model = "gpt-4o") /\ settings.ENABLE_WEB_SEARCH
        IN /\ last.web_requested <=> wanted
           /\ WebMode <=> wanted

\* gpt-4o with use_web_search = False was given a web strategy
C4_Witness ==
    /\ Processed
    /\ last.request.model = "gpt-4o"
    /\ ~last.request.use_web_search
    /\ settings.ENABLE_WEB_SEARCH
    /\ WebMode

\* the web search of a WEB_ONLY request returned nothing
WebOnlyNoHits ==
    /\ Processed
    /\ last.mode = "WEB_ONLY"
    /\ \E i \in CallsOf("web") : last.calls[i].n = 0

\* C6: in WEB_ONLY mode with zero web results the answer comes from the
\* PLAIN strategy, run once: its prompt is the plain preamble, the prior
\* history and the question, with no context block, and no other completion
\* call produced an answer; web_sources is empty, and when that completion
\* succeeds no error is returned and the session gains the user and the
\* assistant message
C6_WebOnlyEmptyFallback ==
    WebOnlyNoHits =>
        LET final == last.calls[Len(last.calls)]
        IN /\ final.op = "llm"
           /\ final.prompt = [system |-> "plain", context |-> <<>>,
                              history |-> AsMessages(last.prior),
                              question |-> last.request.question]
           /\ \A i \in CallsOf("llm") : i # Len(last.calls) =>
                 /\ ~last.calls[i].ok
                 /\ last.calls[i].prompt.system # "plain"
           /\ last.web_sources = <<>>
           /\ final.ok =>
                 /\ last.ok
                 /\ last.answer = Answer
                 /\ History(last.history_id) =
                        last.prior \o <<HumanMessage(last.request.question),
                                        AIMessage(last.answer)>>

\* the fallback answered a request on a session that had a prior turn
C6_Witness ==
    /\ WebOnlyNoHits
    /\ last.ok
    /\ last.prior # <<>>
    /\ Len(History(last.history_id)) = Len(last.prior) + 2

----------------------------------------------------------------------------
(* Claims about the adapters, checked under SpecEntry *)

\* "not question.strip()": empty, or nothing but whitespace
Blank(question) == \A i \in 1..Len(question) : question[i] = " "

\* C5: a question that is empty or whitespace-only is rejected before any
\* collaborator is invoked: no session is created, no retrieval and no
\* completion call is made and the store is unchanged, on every entry path
C5_BlankRejected ==
    (last.op = "process" /\ Blank(last.request.question)) =>
        /\ last.rejected
        /\ last.calls = <<>>
        /\ ~last.created
        /\ ~last.changed

----------------------------------------------------------------------------
(* Claims about the durable record, checked under SpecStore *)

\* what a store constructed over the directory as it is now would hold
Reloaded == LoadExistingSessions([sessions |-> Empty, disk |-> disk]).sessions

\* C7: at every point of a save, a crash between the temp-file write and the
\* rename included, the durable record of the session is the previous complete
\* snapshot or the new complete one, never absent if it existed and never a
\* partially written document
C7_AtomicSave ==
    /\ \A id \in DOMAIN disk : disk[id].complete
    /\ saving.pc # "idle" =>
          IF saving.session_id \in DOMAIN disk
          THEN \/ saving.old.present /\ disk[saving.session_id] = saving.old.data
               \/ disk[saving.session_id] = saving.save_data
          ELSE ~saving.old.present

\* the process died after the temp file was written and before the rename,
\* during a save that changes an existing record
C7_Witness ==
    /\ saving.pc = "crashed"
    /\ saving.at = "replace"
    /\ saving.old.present
    /\ saving.old.data # saving.save_data
    /\ saving.session_id \in DOMAIN tmp
    /\ tmp[saving.session_id] = saving.save_data
    /\ disk[saving.session_id] = saving.old.data

\* C8: after save(session_id, sequence) returns success, re-loading the
\* session from its durable record yields exactly the saved sequence
C8_SaveReloadRoundTrip ==
    (last.op = "save" /\ last.ok /\ saving.pc = "idle") =>
        /\ last.history_id \in DOMAIN Reloaded
        /\ Reloaded[last.history_id].langchain_history = last.lc_messages

----------------------------------------------------------------------------
(* Claims about the streaming calls, checked under SpecStream *)

RECURSIVE Concat(_)
Concat(chunks) == IF chunks = <<>> THEN <<>> ELSE Head(chunks) \o Concat(Tail(chunks))

Forwarded(chunks) == [i \in 1..Len(chunks) |-> Pair(chunks[i], NoMetadata)]

NonEmpty(chunks) == SelectSeq(chunks, LAMBDA c : c # <<>>)

\* the stream ran to the end of the completion and yielded its final pair
Finished == stream.pc = "done" /\ "history_id" \in DOMAIN stream.out[Len(stream.out)].metadata

\* the final pair, the stored assistant message and the user message before it
EndOfStream(increments) ==
    LET final == stream.out[Len(stream.out)]
        stored == sessions[final.metadata.history_id].langchain_history
    IN /\ AllButLast(stream.out) = Forwarded(increments)
       /\ final = Pair(<<>>, FinalMetadata(stream.sources, stream.web_sources,
                                           stream.history_id))
       /\ final.metadata.history_id \in DOMAIN sessions
       /\ Len(stored) >= 2
       /\ stored[Len(stored)] = AIMessage(Concat(stream.delivered))
       /\ stored[Len(stored) - 1] = HumanMessage(stream.request.question)

\* C9 as stated: every increment c1..cn of the completion reaches the
\* consumer as (ci, None), in order, followed by exactly one final pair
C9_EveryIncrementForwarded == Finished => EndOfStream(stream.delivered)

\* C9: the consumer receives the increments that have text as (ci, None), in
\* order, then exactly one final pair ("", metadata) with the completion
\* flag, both source lists and the session id; by then the session holds the
\* user question and, last, the assistant message c1...cn
C9_StreamEnd == Finished => EndOfStream(NonEmpty(stream.delivered))

\* a finished stream whose completion sent an empty increment between texts
C9_Witness ==
    /\ Finished
    /\ Len(stream.delivered) = MaxChunks
    /\ stream.delivered[1] = <<>>
    /\ stream.delivered[MaxChunks] # <<>>
    /\ stream.sources # <<>>
    /\ stream.web_sources # <<>>

\* C10: an exception at any point of a streaming call, the final save
\* included, gives exactly one error pair, last, no normal final pair, and a
\* stored sequence of the session equal to the one before the call
C10_StreamException ==
    (stream.pc = "done" /\ stream.raised # "none") =>
        LET n == Len(stream.out)
        IN /\ n >= 1
           /\ stream.out[n] = Pair(ErrorMessage, ErrorMetadata)
           /\ \A i \in 1..(n - 1) : stream.out[i].metadata = NoMetadata
           /\ stream.request.history_id \in StoredIds(Store) =>
                 GetChatHistory(Store, stream.request.history_id).history
                     = stream.before

----------------------------------------------------------------------------
(* Claims about failures inside process(), checked under SpecFault *)

\* the last retrieval or completion call of the handler raised
StrategyRaised ==
    /\ last.calls # <<>>
    /\ ~last.calls[Len(last.calls)].ok

\* the durable record of the result's session is not its resident sequence
PersistenceFailed ==
    /\ last.history_id \in DOMAIN sessions
    /\ \/ last.history_id \notin DOMAIN disk
       \/ disk[last.history_id] # SaveData(sessions[last.history_id])

\* C11: any failure of retrieval, completion or persistence inside process()
\* yields a result whose answer is an error message, whose sources and
\* web_sources are empty and whose session id is non-empty and names a
\* session of the store
C11_FailureYieldsErrorResult ==
    (Processed /\ (StrategyRaised \/ PersistenceFailed)) =>
        /\ last.answer = ErrorMessage
        /\ last.sources = <<>>
        /\ last.web_sources = <<>>
        /\ last.history_id # None
        /\ last.history_id \in StoredIds(Store)

----------------------------------------------------------------------------
(* Store operations (SpecOps) *)

\* the step is the operation op on session_id
Operation(op, session_id) ==
    /\ last'.op = op
    /\ last'.session_id = session_id
    /\ clock' = clock
    /\ op # "appended"

Resident(session_id) == session_id \in DOMAIN sessions

Recorded(session_id) == session_id \in DOMAIN disk

\* C12: delete of a session that is resident, or present only as a durable
\* record, removes the in-memory entry and the durable file, so that the
\* session is absent for get and for list afterwards
C12_DeleteRemovesBoth ==
    [][\A session_id \in OpIds :
          Operation("delete", session_id) /\ (Resident(session_id) \/ Recorded(session_id))
              => /\ session_id \notin DOMAIN sessions'
                 /\ session_id \notin DOMAIN disk'
                 /\ ~GetChatHistory([sessions |-> sessions', disk |-> disk'], session_id).found
      ]_vars

\* what a delete of a session that is neither resident nor recorded returns
AlreadyAbsent(session_id) ==
    LET success == DeleteSession([sessions |-> Empty, disk |-> Empty], session_id, TRUE).ok
    IN [success |-> success, response |-> DeleteResponse(session_id, success)]

\* C13: a delete that fails on the removal of the durable file returns a
\* value different from the one a delete of an absent session returns, to the
\* caller of delete_session and to the client of DELETE /session/{id}
C13_AbsentDistinctFromIOFailure ==
    [][\A session_id \in OpIds :
          Operation("delete", session_id) /\ Resident(session_id)
              /\ session_id \in DOMAIN disk'
              => /\ last'.returned.success # AlreadyAbsent(session_id).success
                 /\ last'.returned.response # AlreadyAbsent(session_id).response
      ]_vars

\* the session the i-th summary of a listing names
Listed(result, i) == sessions[result[i].session_id]

\* C14: list returns exactly one summary per resident session, with the
\* length of its sequence, its last-access time and its creation time, a
\* session accessed more recently never after one accessed less recently,
\* and changes no session
C14_ListMostRecentFirst ==
    [][Operation("list", None) =>
          LET result == last'.returned
              n == Len(result)
          IN /\ sessions' = sessions
             /\ n = Cardinality(DOMAIN sessions)
             /\ {result[i].session_id : i \in 1..n} = DOMAIN sessions
             /\ \A i \in 1..n : result[i] = Summary(Store, result[i].session_id)
             /\ \A i \in 1..n : \A j \in (i + 1)..n :
                    Listed(result, j).last_access <= Listed(result, i).last_access
      ]_vars

\* every session and every record of st is in st2 as it was, except id's
Untouched(st, st2, id) ==
    /\ \A other \in DOMAIN st.sessions \ {id} :
          other \in DOMAIN st2.sessions /\ st2.sessions[other] = st.sessions[other]
    /\ \A other \in DOMAIN st.disk \ {id} :
          other \in DOMAIN st2.disk /\ st2.disk[other] = st.disk[other]
    /\ DOMAIN st2.sessions \subseteq DOMAIN st.sessions \cup {id}
    /\ DOMAIN st2.disk \subseteq DOMAIN st.disk \cup {id}

\* C15: create returns an id that was neither resident nor recorded, leaves
\* every other session as it was, and the new session is empty in memory and,
\* when the durable write succeeds, in its durable record; when the write
\* fails the session is created in memory all the same and its id returned
C15_CreateFreshEmpty ==
    [][\A id \in OpIds :
          Operation("create", id) =>
              /\ ~Resident(id) /\ ~Recorded(id)
              /\ last'.returned = id
              /\ Untouched(Store, Store', id)
              /\ id \in DOMAIN sessions'
              /\ sessions'[id].langchain_history = <<>>
              /\ IF last'.io
                 THEN /\ id \in DOMAIN disk'
                      /\ disk'[id].complete
                      /\ ParseMessages(disk'[id].langchain_messages) = <<>>
                 ELSE id \notin DOMAIN disk'
      ]_vars

\* a create whose durable write failed, next to a session that has messages
C15_Witness ==
    /\ last.op = "create"
    /\ ~last.io
    /\ last.session_id \in DOMAIN sessions
    /\ last.session_id \notin DOMAIN disk
    /\ \E other \in DOMAIN sessions \ {last.session_id} :
          sessions[other].langchain_history # <<>>

\* C16: get returns the stored sequence of a resident session, the sequence
\* of the durable record of a session that is only recorded, and absent only
\* when there is neither; what it returns is a copy, so that the caller's
\* appends change nothing in the store
C16_GetResidentReloadOrAbsent ==
    [][/\ \A id \in OpIds :
            Operation("get", id) =>
                IF Resident(id)
                THEN last'.ok /\ last'.returned.history = sessions[id].langchain_history
                ELSE IF Recorded(id)
                THEN /\ last'.ok
                     /\ last'.returned.history = ParseMessages(disk[id].langchain_messages)
                     /\ id \in DOMAIN sessions'
                     /\ sessions'[id].langchain_history = last'.returned.history
                ELSE ~last'.ok /\ sessions' = sessions
       /\ last'.op = "appended" /\ last' # last => sessions' = sessions /\ disk' = disk
      ]_vars

\* the caller has appended to what get returned and the store has not
C16_Witness ==
    /\ last.op = "appended"
    /\ last.session_id \in DOMAIN sessions
    /\ sessions[last.session_id].langchain_history # last.returned.history
    /\ sessions[last.session_id].langchain_history # <<>>

\* what get returns for id in the store st, the touch of last_access aside
Gets(st, id) ==
    LET got == GetChatHistory(st, id)
    IN [found |-> got.found, history |-> got.history]

\* C17: save replaces the whole stored sequence of the id, creates the
\* session when the id is not resident, and changes no other session: get of
\* the id returns the given sequence, get of any other id what it did before
C17_SaveReplacesOnlyItsSession ==
    [][\A id \in OpIds :
          Operation("save", id) =>
              /\ id \in DOMAIN sessions'
              /\ sessions'[id].langchain_history = last'.returned
              /\ Gets(Store', id) = [found |-> TRUE, history |-> last'.returned]
              /\ Untouched(Store, Store', id)
              /\ \A other \in OpIds \ {id} : Gets(Store', other) = Gets(Store, other)
      ]_vars

\* a save of one turn over a session that existed before, next to another
C17_Witness ==
    /\ last.op = "save"
    /\ last.returned = OneTurn
    /\ last.session_id \in DOMAIN sessions
    /\ sessions[last.session_id].created_at < sessions[last.session_id].last_access
    /\ DOMAIN sessions # {last.session_id}

----------------------------------------------------------------------------
(* Cancellation of a streaming call (SpecStream) *)

\* C20: when the consumer stops pulling before the increments are exhausted,
\* the session store, in memory and on disk, is what it was before the
\* streaming call began, for an existing id, an unknown id and no id
C20_CancelLeavesStoreAsBefore ==
    stream.pc = "closed" => Store = stream.store

----------------------------------------------------------------------------
(* Requests in progress at the same time (SpecAsync, SpecThreads) *)

\* the two messages of a request
OwnMessages(p) == <<HumanMessage(QuestionOf(p)), AIMessage(Answer)>>

\* both requests have returned, having kept the session id they were given
BothDone(p, q) ==
    /\ p # q
    /\ reqs[p].pc = "done" /\ reqs[q].pc = "done"
    /\ ~reqs[p].created /\ ~reqs[q].created

\* C18: two requests on the same session that both loaded its sequence
\* before either saved leave it with the two messages of one of them only:
\* the sequence grows by 2, not by 4
C18_LostUpdate ==
    \A p \in Procs, q \in Procs :
        BothDone(p, q) /\ reqs[p].history_id = reqs[q].history_id
                       /\ reqs[p].prior = reqs[q].prior
            => /\ Stored(reqs[p].history_id) \in {reqs[p].prior \o OwnMessages(p),
                                                 reqs[q].prior \o OwnMessages(q)}
               /\ Len(Stored(reqs[p].history_id)) = Len(reqs[p].prior) + 2

\* both requests have answered on session s1 and only the second one's
\* messages are stored
C18_Witness ==
    /\ BothDone(1, 2)
    /\ reqs[1].history_id = "s1" /\ reqs[2].history_id = "s1"
    /\ reqs[1].history = OneTurn \o OwnMessages(1)
    /\ Stored("s1") = OneTurn \o OwnMessages(2)

\* C19: two requests on different sessions, however their steps interleave,
\* leave each session, in memory and on disk, with its prior sequence
\* followed by the two messages of its own request
C19_DifferentSessionsIndependent ==
    \A p \in Procs, q \in Procs :
        BothDone(p, q) /\ reqs[p].history_id # reqs[q].history_id
            => LET id == reqs[p].history_id
               IN /\ Stored(id) = reqs[p].prior \o OwnMessages(p)
                  /\ id \in DOMAIN disk
                  /\ ParseMessages(disk[id].langchain_messages)
                        = reqs[p].prior \o OwnMessages(p)

----------------------------------------------------------------------------
(* The server-sent events of a streaming endpoint (SpecStream) *)

\* generate() has returned: the service's generator is exhausted, or the
\* loop raised
SseEnded == stream.pc \in {"done", "aborted"}

\* the service yielded its normal final pair and generate() sent its event
SseSucceeded == stream.pc = "done" /\ stream.raised \in {"none", "save"}

\* C21: a stream of events that has ended, on the success path and on every
\* failure path, has exactly one event with done = true, the last one; on
\* the success path that event carries the sources, the web sources and the
\* id of the session that was updated
C21_OneDoneEventLast ==
    LET events == SseEvents
        n == Len(events)
    IN /\ stream.pc = "streaming" => \A i \in 1..n : ~events[i].done
       /\ SseEnded =>
             /\ n >= 1
             /\ events[n].done
             /\ \A i \in 1..(n - 1) : ~events[i].done
       /\ SseSucceeded =>
             /\ events[n].sources = stream.sources
             /\ events[n].web_sources = stream.web_sources
             /\ events[n].history_id = stream.history_id
             /\ Stored(stream.history_id) = stream.history

\* a stream that sent text and then ended on the adapter's error event
C21_Witness ==
    /\ stream.pc = "aborted"
    /\ Len(SseEvents) >= 3
    /\ SseEvents[1].text # <<>>
    /\ SseEvents[Len(SseEvents)] = SseErrorEvent

----------------------------------------------------------------------------
(* The final save of process() failing (SpecFault) *)

\* the step is a call of process() that got its answer and whose final
\* durable write failed
SaveFailedQuietly ==
    /\ last'.op = "process"
    /\ ~last'.rejected
    /\ last'.ok
    /\ ~last'.written

\* C22: when the durable write of the final save fails, the caller receives
\* the generated answer and the session id, the resident session holds the
\* updated sequence, and the durable record is the one from before the call
C22_AnswerSurvivesFailedWrite ==
    [][SaveFailedQuietly =>
          LET id == last'.history_id
              turn == <<HumanMessage(last'.request.question), AIMessage(last'.answer)>>
          IN /\ last'.answer # ErrorMessage
             /\ last'.answer # <<>>
             /\ id \in DOMAIN sessions'
             /\ sessions'[id].langchain_history = last'.prior \o turn
             /\ IF id \in DOMAIN disk
                THEN id \in DOMAIN disk' /\ disk'[id] = disk[id]
                ELSE id \in DOMAIN disk' =>
                        ParseMessages(disk'[id].langchain_messages) = <<>>
      ]_vars

\* an answer returned for the existing session s1 whose durable record still
\* holds the turn from before the call
C22_Witness ==
    /\ Processed
    /\ last.ok
    /\ ~last.written
    /\ last.history_id = "s1"
    /\ ~last.created
    /\ Len(sessions["s1"].langchain_history) = Len(last.prior) + 2
    /\ ParseMessages(disk["s1"].langchain_messages) = last.prior

----------------------------------------------------------------------------
(* The streaming path against the blocking path (SpecSame) *)

\* which retrievals process_question consults for the request
BlockingConsults(request, local_available) ==
    LET mode == Dispatch(UseWebSearch(request) /\ settings.ENABLE_WEB_SEARCH,
                         local_available)
    IN [local |-> mode \in {"LOCAL_ONLY", "HYBRID"},
        web |-> mode \in {"WEB_ONLY", "HYBRID"}]

\* C23: the streaming call consults local retrieval and web retrieval
\* exactly when the blocking call does for the same request, switches and
\* index, and completes with the model the blocking call resolves
C23_StreamSelectsAsBlocking ==
    stream.pc # "idle" =>
        /\ stream.consulted = BlockingConsults(stream.request, stream.local_available)
        /\ stream.model = ResolvedModel(stream.request)

----------------------------------------------------------------------------
(* The hybrid strategy (SpecHybrid) *)

\* C24: in HYBRID mode a local retrieval that returns is followed by the web
\* retrieval and then by exactly one completion call, and nothing else is
\* called; the context of that call is the local snippets in retrieval order
\* followed by the web snippets in retrieval order; an answered request
\* carries the sources of the local results and one web record per web
\* result, in retrieval order
C24_HybridLocalThenWebThenOneCompletion ==
    (Processed /\ last.mode = "HYBRID") =>
        LET calls == last.calls
        IN /\ Len(calls) >= 1 /\ calls[1].op = "local"
           /\ calls[1].ok =>
                 /\ Len(calls) = 3
                 /\ calls[2].op = "web" /\ calls[2].ok
                 /\ calls[3].op = "llm"
                 /\ calls[3].prompt.context =
                        [i \in 1..calls[1].n |-> calls[1].returned[i].page_content]
                        \o [i \in 1..calls[2].n |-> calls[2].returned[i].page_content]
           /\ CallsOf("llm") # {} => calls[1].ok
           /\ last.ok =>
                 /\ {last.sources[i] : i \in 1..Len(last.sources)} =
                        {calls[1].returned[i].source : i \in 1..calls[1].n}
                 /\ Len(last.web_sources) = calls[2].n
                 /\ \A i \in 1..calls[2].n :
                        last.web_sources[i].url = calls[2].returned[i].source

\* a hybrid request was answered from two local and two web results
C24_Witness ==
    /\ Processed
    /\ last.mode = "HYBRID"
    /\ last.ok
    /\ last.calls[1].returned = <<OtherLocalDoc, LocalDoc>>
    /\ last.calls[2].returned = <<WebDoc, OtherWebDoc>>

----------------------------------------------------------------------------
(* The prompt of the completion call (SpecPrompt) *)

\* the speaker a rendered line or chat message is attributed to
Speaker(role) ==
    IF role \in {"user", "human"} THEN "user"
    ELSE IF role \in {"assistant", "ai"} THEN "assistant"
    ELSE role

\* the speaker of a stored message
SpeakerOf(msg) ==
    IF msg.cls = "HumanMessage" THEN "user"
    ELSE IF msg.cls = "AIMessage" THEN "assistant"
    ELSE "system"

\* every message under its own speaker, in order
Attributed(history) ==
    [i \in 1..Len(history) |->
        [role |-> SpeakerOf(history[i]), content |-> history[i].content]]

\* the speakers and contents a prompt's history carries
Carried(rendered) ==
    [i \in 1..Len(rendered) |->
        [role |-> Speaker(rendered[i].role), content |-> rendered[i].content]]

\* C25: the prompt of every completion call carries each prior message of
\* the session once, in stored order and under its own role, and the
\* question once, after them: the blocking strategies render the prior
\* messages as the history and the question apart, the streaming call sends
\* the prior messages followed by the question
C25_PromptHasPriorTurnsThenQuestion ==
    /\ Processed =>
          \A i \in CallsOf("llm") :
              /\ Carried(last.calls[i].prompt.history) = Attributed(last.prior)
              /\ last.calls[i].prompt.question = last.request.question
    /\ stream.pc # "idle" =>
          Carried(stream.messages.history) =
              Attributed(Append(stream.before, HumanMessage(stream.request.question)))

----------------------------------------------------------------------------
(* The tour guide orchestrator (SpecTour) *)

Guided == last.op = "tour" /\ last.ok

\* one completion call of the bare model, no tool recorded, no note
Toolless ==
    /\ Len(last.calls) = 1 /\ last.calls[1].op = "llm"
    /\ last.tools_used = {}
    /\ last.answer = last.content

\* the answer carries the note that names the map data
HasNote ==
    /\ Len(last.answer) > Len(last.content)
    /\ last.answer[Len(last.answer)] = Provenance[1]

----------------------------------------------------------------------------
(* A failing strategy of process() on an existing session (SpecFault) *)

\* the step is a call of process() with the id of a stored session, in which
\* retrieval or the completion call raised
StrategyFailed ==
    /\ last'.op = "process"
    /\ ~last'.rejected
    /\ ~last'.ok
    /\ last'.request.history_id \in StoredIds(Store)

----------------------------------------------------------------------------
(* Several stores over one directory (SpecPeers) *)

\* C28: a session saved through another store of the process is observed by
\* this one: get of its id returns the saved sequence, list has an entry for
\* it with the length of that sequence, and the session count covers it,
\* whether or not this store held an older copy
C28_PeerSaveObserved ==
    [][\A id \in OpIds :
          id \in DOMAIN disk =>
              LET seq == ParseMessages(disk[id].langchain_messages)
              IN /\ Operation("get", id) => last'.ok /\ last'.returned.history = seq
                 /\ Operation("list", None) =>
                       \E i \in 1..Len(last'.returned) :
                           /\ last'.returned[i].session_id = id
                           /\ last'.returned[i].message_count = Len(seq)
                 /\ Operation("count", None) =>
                       last'.returned.active_sessions >= Cardinality(DOMAIN disk)
      ]_vars

\* C30: get of an id leaves every other resident session with the message
\* sequence and the creation time it had, also when it reloads the store
\* from the durable records while a resident session differs from its record
C30_GetLeavesOtherSessions ==
    [][\A id \in OpIds :
          Operation("get", id) =>
              \A other \in DOMAIN sessions \ {id} :
                  /\ other \in DOMAIN sessions'
                  /\ sessions'[other].langchain_history = sessions[other].langchain_history
                  /\ sessions'[other].created_at = sessions[other].created_at
      ]_vars

----------------------------------------------------------------------------
(* The temperature of the completion call (SpecTemperature) *)

\* C29: the completion call of every path is given the temperature of the
\* request when the request carries one, 0 included, and the configured
\* default temperature only when it carries none
C29_SuppliedTemperatureIsPassed ==
    last.op = "completion" =>
        last.temperature = IF last.request.temperature # None
                           THEN last.request.temperature
                           ELSE settings.DEFAULT_TEMPERATURE

====
